---- MODULE Spec2Model ----
(***************************************************************************)
(* Verification model of the neo-journalism analysis pipeline:             *)
(*   - preprocess_orderbooks.py : orderbook snapshots -> variables ->       *)
(*     delta columns -> lagged delta columns -> CSV                         *)
(*   - run_var.py : statistics primitives, the two OLS solvers, the         *)
(*     Granger F-test, run_var and the reporting loops of main              *)
(*                                                                          *)
(* Numbers.  Prices are counted in cents and sizes in contracts, so every   *)
(* modelled orderbook variable is an integer; the statistics are exact      *)
(* rationals <<num, den>>.  Python's None is the empty tuple and a present  *)
(* value v is the one-element tuple <<v>>.  Python indexes rows from 0,     *)
(* the sequences here from 1: row k of the model is period k-1.             *)
(***************************************************************************)
EXTENDS Integers, Sequences, FiniteSets, TLC

VARIABLES
    snaps,          \* preprocess main: the snapshot picked for each 30-minute interval
    rows,           \* preprocess main: rows (one dict per interval)
    rows_complete,  \* preprocess main: rows[2:]
    csv_out,        \* preprocess main: the cells DictWriter wrote (text)
    argY, argX1, argX2,  \* the series handed to an OLS solver or to granger_test
    result,         \* what the call returned
    cdf_calls,      \* the arguments the call evaluated stats.f.cdf at
    data,           \* run_var main: the rows csv.DictReader read (text)
    out,            \* run_var main: the table lines the last pass of a loop printed
    at,             \* run_var main: <<table, index>> of the next variable
    server,         \* fetchers: the number of pages the Polymarket endpoint holds
    pagination_key, \* fetch_polymarket_orderbooks: the key of the page to request
    page,           \* fetch_polymarket_orderbooks: the page counter
    all_snapshots,  \* fetch_polymarket_orderbooks: the snapshots collected
    attempt,        \* fetch_with_retries: passes of the retry loop completed
    requests,       \* requests.get calls made for the current URL
    response,       \* the outcome of the last requests.get
    fetched,        \* what fetch_with_retries returned, None before it returns
    timestamps,     \* fetch_kalshi_for_timestamps: its argument
    batch_start,    \* fetch_kalshi_for_timestamps: start of the current batch
    calls,          \* the executor: every fetch_kalshi_at_timestamp submitted
    futures,        \* fetch_kalshi_for_timestamps: the fetches of the current batch
    kalshi_results, \* fetch_kalshi_for_timestamps: the dict being filled
    pc              \* position in the running script

preVars == <<snaps, rows, rows_complete, csv_out>>
olsVars == <<argY, argX1, argX2, result, cdf_calls>>
varVars == <<data, out, at>>
polyVars == <<server, pagination_key, page, all_snapshots, attempt, requests, response, fetched>>
kalshiVars == <<timestamps, batch_start, calls, futures, kalshi_results>>
netVars == <<polyVars, kalshiVars>>
vars == <<preVars, olsVars, varVars, netVars, pc>>

----------------------------------------------------------------------------
(* Optional values *)

None == <<>>
Some(v) == <<v>>
Val(o) == o[1]

\* no fetcher is running
NoFetcher ==
    /\ server = 0 /\ pagination_key = <<>> /\ page = 1 /\ all_snapshots = <<>>
    /\ attempt = 0 /\ requests = 0 /\ response = <<>> /\ fetched = <<>>
    /\ timestamps = <<>> /\ batch_start = 0 /\ calls = <<>> /\ futures = {}
    /\ kalshi_results = <<>>

(* Bounds *)
MaxPeriods == 4     \* intervals sampled by the preprocessing
MaxLen == 5         \* length of the series handed to the solvers

----------------------------------------------------------------------------
(* preprocess_orderbooks.py : helper functions *)

ONE == 100                      \* the price 1.00 in cents
RANGE_CENTS == 5                \* range_cents = 0.05

Min(a, b) == IF a < b THEN a ELSE b

safe_float(value, default) == IF value # None THEN value ELSE default

get_best_bid(orders) ==
    IF Len(orders) > 0
    THEN <<safe_float(orders[1].price, None), safe_float(orders[1].size, None)>>
    ELSE <<None, None>>

RECURSIVE SumSizes(_, _)
SumSizes(orders, k) ==
    IF k = 0 THEN 0
    ELSE SumSizes(orders, k - 1) + Val(safe_float(orders[k].size, Some(0)))

get_top_n_depth(orders, n) ==
    IF Len(orders) = 0 THEN Some(0)
    ELSE Some(SumSizes(orders, Min(n, Len(orders))))

get_total_depth(orders) ==
    IF Len(orders) = 0 THEN Some(0)
    ELSE Some(SumSizes(orders, Len(orders)))

get_num_levels(orders) == IF Len(orders) > 0 THEN Some(Len(orders)) ELSE Some(0)

RECURSIVE SumSizesFrom(_, _, _)
SumSizesFrom(orders, k, threshold) ==
    IF k = 0 THEN 0
    ELSE SumSizesFrom(orders, k - 1, threshold)
         + (IF Val(safe_float(orders[k].price, Some(0))) >= threshold
            THEN Val(safe_float(orders[k].size, Some(0))) ELSE 0)

get_depth_within_range(orders, best_price, range_cents) ==
    IF Len(orders) = 0 \/ best_price = None THEN Some(0)
    ELSE Some(SumSizesFrom(orders, Len(orders), Val(best_price) - range_cents))

calculate_mid_price(best_bid_yes, best_bid_no) ==
    IF best_bid_yes = None \/ best_bid_no = None THEN None
    ELSE Some((Val(best_bid_yes) + (ONE - Val(best_bid_no))) \div 2)

calculate_spread(best_bid_yes, best_bid_no) ==
    IF best_bid_yes = None \/ best_bid_no = None THEN None
    ELSE Some((ONE - Val(best_bid_no)) - Val(best_bid_yes))

(* The integer-valued variables extract_variables computes for one platform,  *)
(* keyed by the variable name (imbalance_* and vwap_* are ratios and are not   *)
(* part of this model).                                                        *)
VarNames == {"mid", "spread", "best_bid_yes", "best_bid_no",
             "depth_best_yes", "depth_best_no", "depth_top3_yes", "depth_top3_no",
             "total_depth_yes", "total_depth_no", "depth_5c_yes", "depth_5c_no",
             "num_levels_yes", "num_levels_no"}

Platforms == {"poly", "kalshi"}

PlatformVariables(book) ==
    LET yes_bids == book.yes_bids
        no_bids  == book.no_bids
        by == get_best_bid(yes_bids)
        bn == get_best_bid(no_bids)
    IN  [v \in VarNames |->
            CASE v = "mid"             -> calculate_mid_price(by[1], bn[1])
              [] v = "spread"          -> calculate_spread(by[1], bn[1])
              [] v = "best_bid_yes"    -> by[1]
              [] v = "best_bid_no"     -> bn[1]
              [] v = "depth_best_yes"  -> by[2]
              [] v = "depth_best_no"   -> bn[2]
              [] v = "depth_top3_yes"  -> get_top_n_depth(yes_bids, 3)
              [] v = "depth_top3_no"   -> get_top_n_depth(no_bids, 3)
              [] v = "total_depth_yes" -> get_total_depth(yes_bids)
              [] v = "total_depth_no"  -> get_total_depth(no_bids)
              [] v = "depth_5c_yes"    -> get_depth_within_range(yes_bids, by[1], RANGE_CENTS)
              [] v = "depth_5c_no"     -> get_depth_within_range(no_bids, bn[1], RANGE_CENTS)
              [] v = "num_levels_yes"  -> get_num_levels(yes_bids)
              [] v = "num_levels_no"   -> get_num_levels(no_bids)]

Col(p, v) == p \o "_" \o v
DeltaCol(col) == "d_" \o col
LagCol(delta_col) == delta_col \o "_lag1"

NumericCols == {Col(p, v) : p \in Platforms, v \in VarNames}

extract_variables(snap) ==
    LET pv == PlatformVariables(snap.polymarket)
        kv == PlatformVariables(snap.kalshi)
    IN  [c \in NumericCols |->
            LET v == CHOOSE w \in VarNames : c = Col("poly", w) \/ c = Col("kalshi", w)
            IN  IF c = Col("poly", v) THEN pv[v] ELSE kv[v]]

----------------------------------------------------------------------------
(* preprocess_orderbooks.py : the delta and lag steps of main *)

DeltaValueZeroFill(curr_val, prev_val) ==
    Some(Val(safe_float(curr_val, Some(0))) - Val(safe_float(prev_val, Some(0))))

\* the change taken from the current to the previous value
DeltaValueReversed(curr_val, prev_val) ==
    IF curr_val # None /\ prev_val # None
    THEN Some(Val(prev_val) - Val(curr_val))
    ELSE None

DeltaValue(curr_val, prev_val) ==
    IF curr_val # None /\ prev_val # None
    THEN Some(Val(curr_val) - Val(prev_val))
    ELSE None

\* rows[i][delta_col] for the row of model index k (Python i = k - 1)
DeltaCell(rs, k, col) ==
    IF k - 1 = 0 THEN None
    ELSE DeltaValue(rs[k][col], rs[k - 1][col])

LagCellNoShift(rs, k, delta_col) ==
    IF k - 1 <= 0 THEN None ELSE rs[k][delta_col]

LagCell(rs, k, delta_col) ==
    IF k - 1 <= 1 THEN None ELSE rs[k - 1][delta_col]

\* numeric_cols = the keys of rows[0]; every row gets a d_<col> key
AddDeltas(rs) ==
    LET numeric_cols == DOMAIN rs[1]
    IN  [k \in 1..Len(rs) |->
            rs[k] @@ [d \in {DeltaCol(c) : c \in numeric_cols} |->
                        LET col == CHOOSE c \in numeric_cols : DeltaCol(c) = d
                        IN  DeltaCell(rs, k, col)]]

\* delta_cols = d_<col> for every numeric column; every row gets a <delta_col>_lag1 key
AddLags(rs, numeric_cols) ==
    LET delta_cols == {DeltaCol(c) : c \in numeric_cols}
    IN  [k \in 1..Len(rs) |->
            rs[k] @@ [l \in {LagCol(d) : d \in delta_cols} |->
                        LET d == CHOOSE c \in delta_cols : LagCol(c) = l
                        IN  LagCell(rs, k, d)]]

----------------------------------------------------------------------------
(* CSV cells: csv.DictWriter writes None as the empty string and a number   *)
(* as str(number); run_var reads the text back with float().  A text is a   *)
(* sequence of characters.                                                  *)

DigitChars == <<"0", "1", "2", "3", "4", "5", "6", "7", "8", "9">>

RECURSIVE NatToText(_)
NatToText(k) ==
    IF k < 10 THEN <<DigitChars[k + 1]>>
    ELSE NatToText(k \div 10) \o <<DigitChars[(k % 10) + 1]>>

str(v) == IF v < 0 THEN <<"-">> \o NatToText(-v) ELSE NatToText(v)

CsvCellZero(value) == IF value = None THEN str(0) ELSE str(Val(value))

CsvCell(value) == IF value = None THEN <<>> ELSE str(Val(value))

DigitValue(ch) == CHOOSE d \in 0..9 : DigitChars[d + 1] = ch

RECURSIVE TextToNat(_)
TextToNat(t) ==
    IF Len(t) = 0 THEN 0
    ELSE 10 * TextToNat(SubSeq(t, 1, Len(t) - 1)) + DigitValue(t[Len(t)])

float(t) == IF t[1] = "-" THEN -TextToNat(Tail(t)) ELSE TextToNat(t)

WriteRows(rs) == [k \in 1..Len(rs) |-> [c \in DOMAIN rs[k] |-> CsvCell(rs[k][c])]]

----------------------------------------------------------------------------
(* Input snapshots *)

Order(p, s) == [price |-> Some(p), size |-> Some(s)]

PolyBooks ==
    { [yes_bids |-> <<Order(52, 10), Order(50, 5)>>, no_bids |-> <<Order(46, 8)>>],
      [yes_bids |-> <<Order(50, 5)>>, no_bids |-> <<Order(48, 8), Order(40, 2)>>],
      [yes_bids |-> <<>>, no_bids |-> <<Order(46, 8)>>] }

KalshiBooks ==
    { [yes_bids |-> <<Order(48, 3), Order(46, 4), Order(44, 1), Order(42, 7)>>,
       no_bids |-> <<Order(50, 6)>>],
      [yes_bids |-> <<>>, no_bids |-> <<>>] }

Snapshots == [polymarket : PolyBooks, kalshi : KalshiBooks]

SnapshotSeqs == UNION {[1..n -> Snapshots] : n \in 1..MaxPeriods}

----------------------------------------------------------------------------
(* preprocess_orderbooks.py : main *)

InitPre ==
    /\ snaps \in SnapshotSeqs
    /\ rows = <<>>
    /\ rows_complete = <<>>
    /\ csv_out = <<>>
    /\ pc = "extract"
    /\ argY = <<>> /\ argX1 = <<>> /\ argX2 = <<>>
    /\ result = None
    /\ cdf_calls = <<>>
    /\ data = <<>> /\ out = <<>> /\ at = <<1, 1>>
    /\ NoFetcher

Extract ==
    /\ pc = "extract"
    /\ rows' = [k \in 1..Len(snaps) |-> extract_variables(snaps[k])]
    /\ pc' = "delta"
    /\ UNCHANGED <<snaps, rows_complete, csv_out, olsVars, varVars, netVars>>

DeltaStep ==
    /\ pc = "delta"
    /\ rows' = AddDeltas(rows)
    /\ pc' = "lag"
    /\ UNCHANGED <<snaps, rows_complete, csv_out, olsVars, varVars, netVars>>

LagStep ==
    /\ pc = "lag"
    /\ rows' = AddLags(rows, NumericCols)
    /\ pc' = "drop"
    /\ UNCHANGED <<snaps, rows_complete, csv_out, olsVars, varVars, netVars>>

\* only the first row removed
DropStepFirstRowOnly ==
    /\ pc = "drop"
    /\ rows_complete' = SubSeq(rows, 2, Len(rows))
    /\ pc' = "write"
    /\ UNCHANGED <<snaps, rows, csv_out, olsVars, varVars, netVars>>

\* rows_complete = rows[2:]
DropStep ==
    /\ pc = "drop"
    /\ rows_complete' = SubSeq(rows, 3, Len(rows))
    /\ pc' = "write"
    /\ UNCHANGED <<snaps, rows, csv_out, olsVars, varVars, netVars>>

\* fieldnames = list(rows_complete[0].keys()) raises IndexError when fewer
\* than three intervals were sampled
WriteCsv ==
    /\ pc = "write"
    /\ IF Len(rows_complete) = 0
       THEN pc' = "crashed" /\ UNCHANGED csv_out
       ELSE pc' = "done" /\ csv_out' = WriteRows(rows_complete)
    /\ UNCHANGED <<snaps, rows, rows_complete, olsVars, varVars, netVars>>

\* calculate_imbalance(yes_size, no_size) is neither None nor zero
ImbalanceNonZero(yes_size, no_size) ==
    Val(safe_float(yes_size, Some(0))) # Val(safe_float(no_size, Some(0)))

\* the sample lines format mid and spread with :.4f (when the imbalance is
\* neither None nor zero) and the best-level depths with :.0f; formatting
\* None raises TypeError
SampleRaises(row) ==
    \E p \in Platforms :
        \/ /\ ImbalanceNonZero(row[Col(p, "depth_best_yes")], row[Col(p, "depth_best_no")])
           /\ (row[Col(p, "mid")] = None \/ row[Col(p, "spread")] = None)
        \/ row[Col(p, "depth_best_yes")] = None
        \/ row[Col(p, "depth_best_no")] = None

\* the summary and the sample of rows[:3], printed after the file is closed
ShowSample ==
    /\ pc = "done"
    /\ pc' = IF \E k \in 1..Min(3, Len(rows)) : SampleRaises(rows[k])
             THEN "crashed" ELSE "shown"
    /\ UNCHANGED <<preVars, olsVars, varVars, netVars>>

NextPre == Extract \/ DeltaStep \/ LagStep \/ DropStep \/ WriteCsv \/ ShowSample

SpecPre == InitPre /\ [][NextPre]_vars

----------------------------------------------------------------------------
(* Properties of the preprocessing pipeline *)

DeltasComputed == pc \in {"lag", "drop", "write", "done", "shown", "crashed"}
LagsComputed == pc \in {"drop", "write", "done", "shown", "crashed"}

Book(snap, p) == IF p = "poly" THEN snap.polymarket ELSE snap.kalshi

\* the orderbook sides a variable is computed from
SidesOf(v) ==
    IF v \in {"mid", "spread"} THEN {"yes_bids", "no_bids"}
    ELSE IF v \in {"best_bid_yes", "depth_best_yes", "depth_top3_yes",
                   "total_depth_yes", "depth_5c_yes", "num_levels_yes"}
         THEN {"yes_bids"}
         ELSE {"no_bids"}

SideMissing(snap, p, v) == \E side \in SidesOf(v) : Len(Book(snap, p)[side]) = 0

\* C1: for every tracked variable of either platform and every period i >= 1,
\* if the orderbook side the variable is computed from is empty in the snapshot
\* of period i or of period i-1, the variable's delta at i is absent (and so is
\* never a zero "no change").
C1_MissingSideGivesAbsentDelta ==
    DeltasComputed =>
        \A k \in 2..Len(rows) : \A p \in Platforms : \A v \in VarNames :
            (SideMissing(snaps[k], p, v) \/ SideMissing(snaps[k - 1], p, v))
                => rows[k][DeltaCol(Col(p, v))] = None

\* C2: for every series of length n >= 3 the delta step produced, delta[0] is
\* absent, and for i in 1..n-1 delta[i] is absent iff value[i] or value[i-1]
\* is absent, and equals value[i] - value[i-1] when both are present.
C2_DeltaSeries ==
    (DeltasComputed /\ Len(rows) >= 3) =>
        \A c \in NumericCols :
            /\ rows[1][DeltaCol(c)] = None
            /\ \A k \in 2..Len(rows) :
                  /\ (rows[k][DeltaCol(c)] = None)
                        <=> (rows[k][c] = None \/ rows[k - 1][c] = None)
                  /\ (rows[k][c] # None /\ rows[k - 1][c] # None)
                        => rows[k][DeltaCol(c)] = Some(Val(rows[k][c]) - Val(rows[k - 1][c]))

\* a series with a present non-zero delta, and a series whose value is absent
\* in one period and present in the next
C2_Witness ==
    /\ pc = "lag" /\ Len(rows) >= 3
    /\ \E c \in NumericCols : \E k \in 2..Len(rows) :
            rows[k][DeltaCol(c)] # None /\ rows[k][DeltaCol(c)] # Some(0)
    /\ \E c \in NumericCols : \E k \in 2..Len(rows) :
            rows[k][c] # None /\ rows[k - 1][c] = None /\ rows[k][DeltaCol(c)] = None

\* C3: the lagged-delta sequence has the length n of the source series, lag[0]
\* and lag[1] are absent, and lag[i] = delta[i-1] (absence included) for every
\* i in 2..n-1.
C3_LaggedDeltaSeries ==
    LagsComputed =>
        /\ Len(rows) = Len(snaps)
        /\ \A c \in NumericCols :
            LET d == DeltaCol(c) IN
            /\ \A k \in 1..Len(rows) : LagCol(d) \in DOMAIN rows[k]
            /\ \A k \in 1..Min(2, Len(rows)) : rows[k][LagCol(d)] = None
            /\ \A k \in 3..Len(rows) : rows[k][LagCol(d)] = rows[k - 1][d]

\* a lagged delta that is present and non-zero, and one that is absent because
\* of missing data, both at an index i >= 2
C3_Witness ==
    /\ pc = "drop" /\ Len(rows) >= 4
    /\ \E c \in NumericCols : \E k \in 3..Len(rows) :
            rows[k][LagCol(DeltaCol(c))] \notin {None, Some(0)}
    /\ \E c \in NumericCols : \E k \in 3..Len(rows) :
            rows[k][LagCol(DeltaCol(c))] = None
----------------------------------------------------------------------------
(* Exact rational arithmetic for run_var.py.  A number is <<num, den>> in     *)
(* lowest terms with den > 0.  <<0, 0>> stands for "the evaluation raised      *)
(* ZeroDivisionError" and is absorbing, so a raise anywhere inside a function  *)
(* shows in everything computed after it.                                      *)

Abs(a) == IF a < 0 THEN -a ELSE a

RECURSIVE GCD(_, _)
GCD(a, b) == IF b = 0 THEN a ELSE GCD(b, a % b)

Raised == <<0, 0>>
IsRaised(r) == r[2] = 0

RNorm(n, d) == LET g == GCD(Abs(n), d) IN <<n \div g, d \div g>>
RInt(k) == <<k, 1>>

RAdd(a, b) ==
    IF IsRaised(a) \/ IsRaised(b) THEN Raised
    ELSE LET g == GCD(a[2], b[2])
             l == (a[2] \div g) * b[2]
         IN  RNorm(a[1] * (l \div a[2]) + b[1] * (l \div b[2]), l)

RNeg(a) == <<-a[1], a[2]>>
RSub(a, b) == RAdd(a, RNeg(b))

RMul(a, b) ==
    IF IsRaised(a) \/ IsRaised(b) THEN Raised
    ELSE LET g1 == GCD(Abs(a[1]), b[2])
             g2 == GCD(Abs(b[1]), a[2])
         IN  <<(a[1] \div g1) * (b[1] \div g2), (a[2] \div g2) * (b[2] \div g1)>>

RDiv(a, b) ==
    IF IsRaised(a) \/ IsRaised(b) \/ b[1] = 0 THEN Raised
    ELSE IF b[1] > 0 THEN RMul(a, <<b[2], b[1]>>)
         ELSE RMul(a, <<-b[2], -b[1]>>)

\* a < b, by the integer parts first so that the products stay small
RLess(a, b) ==
    /\ ~IsRaised(a) /\ ~IsRaised(b)
    /\ LET qa == a[1] \div a[2]
           qb == b[1] \div b[2]
       IN  IF qa # qb THEN qa < qb
           ELSE (a[1] - qa * a[2]) * b[2] < (b[1] - qb * b[2]) * a[2]

RAbs(a) == <<Abs(a[1]), a[2]>>
RSquare(a) == RMul(a, a)

RECURSIVE RSum(_)
RSum(seq) == IF Len(seq) = 0 THEN RInt(0) ELSE RAdd(seq[1], RSum(Tail(seq)))

----------------------------------------------------------------------------
(* run_var.py : statistics primitives.  A series is a sequence of optional   *)
(* numbers; the data are whole numbers of units (cents, contracts), so a      *)
(* deviation from the mean x - S/n is carried as the integer n*x - S and the  *)
(* n's are divided out at the end.                                            *)

Present(values) == SelectSeq(values, LAMBDA v : v # None)

\* a rounding residue: its sign is rnd, its size 1/ULP_DEN stands for a few
\* units in the last place
ULP_DEN == 1000000

Rounding == {-1, 0, 1}

Residue(rnd) == RNorm(rnd, ULP_DEN)

RECURSIVE PowerOfTwo(_)
PowerOfTwo(n) == n = 1 \/ (n > 1 /\ n % 2 = 0 /\ PowerOfTwo(n \div 2))

RECURSIVE SumTo(_, _)
SumTo(valid, k) == IF k = 0 THEN 0 ELSE SumTo(valid, k - 1) + Val(valid[k])

Sum(valid) == SumTo(valid, Len(valid))

\* sum of n*(x - x_mean) * n*(y - y_mean) over the first k pairs
RECURSIVE SumDevProducts(_, _, _, _, _)
SumDevProducts(xs, ys, Sx, Sy, k) ==
    IF k = 0 THEN 0
    ELSE SumDevProducts(xs, ys, Sx, Sy, k - 1)
         + (Len(xs) * Val(xs[k]) - Sx) * (Len(ys) * Val(ys[k]) - Sy)

mean(values) ==
    LET valid == Present(values)
    IN  IF Len(valid) > 0 THEN Some(RNorm(Sum(valid), Len(valid))) ELSE None

(* A unit of the data can be a fraction that binary floating point does not  *)
(* represent (a cent is 0.01).  The sum of n equal values c is then rounded,  *)
(* unless c is 0 or n is a power of two, and sum/n can differ from c in the    *)
(* last place: every deviation from the mean is then the same small number    *)
(* instead of 0, and the computed variance of a constant series is 0 or a      *)
(* positive residue.                                                           *)
ConstantNonZero(valid) ==
    Len(valid) > 0 /\ valid[1] # Some(0) /\ \A i \in DOMAIN valid : valid[i] = valid[1]

MeanRounds(valid) == ConstantNonZero(valid) /\ ~PowerOfTwo(Len(valid))

VarRounding == {0, 1}

\* the variance in exact arithmetic
ExactVariance(valid) ==
    RNorm(SumDevProducts(valid, valid, Sum(valid), Sum(valid), Len(valid)),
          Len(valid) * Len(valid) * Len(valid))

variance(values, rnd) ==
    LET valid == Present(values)
    IN  IF Len(valid) = 0 THEN None
        ELSE IF MeanRounds(valid) THEN Some(Residue(rnd))
        ELSE Some(ExactVariance(valid))

\* zip(x_values, y_values) stops at the shorter of the two
PairIndices(x_values, y_values) ==
    SelectSeq([i \in 1..Min(Len(x_values), Len(y_values)) |-> i],
              LAMBDA i : x_values[i] # None /\ y_values[i] # None)

\* the covariance with the means of the whole series
covarianceOfWholeSeriesMeans(x_values, y_values) ==
    LET idx == PairIndices(x_values, y_values)
    IN  IF Len(idx) = 0 THEN None
        ELSE Some(RDiv(RSum([j \in 1..Len(idx) |->
                                RMul(RSub(RInt(Val(x_values[idx[j]])), Val(mean(x_values))),
                                     RSub(RInt(Val(y_values[idx[j]])), Val(mean(y_values))))]),
                       RInt(Len(idx))))

covariance(x_values, y_values) ==
    LET idx == PairIndices(x_values, y_values)
        n == Len(idx)
        x_vals == [j \in 1..n |-> x_values[idx[j]]]
        y_vals == [j \in 1..n |-> y_values[idx[j]]]
    IN  IF n = 0 THEN None
        ELSE Some(RNorm(SumDevProducts(x_vals, y_vals, Sum(x_vals), Sum(y_vals), n), n * n * n))

----------------------------------------------------------------------------
(* run_var.py : the two OLS solvers *)

EPS_EXP == 20          \* the threshold 1e-20 is 10^-EPS_EXP

\* p * 10^e < q, for p >= 0 and q >= 1, without forming 10^e
RECURSIVE TimesPow10Less(_, _, _)
TimesPow10Less(p, q, e) ==
    IF e = 0 THEN p < q ELSE TimesPow10Less(p, ((q - 1) \div 10) + 1, e - 1)

\* the guard left out
NoSingularGuard(denom) == FALSE

\* abs(denom) < 1e-20
NearSingular(denom) ==
    ~IsRaised(denom) /\ TimesPow10Less(Abs(denom[1]), denom[2], EPS_EXP)

\* valid_rows of ols_two_variables, as the indices of the rows kept
ValidRows3(Y, X1, X2) ==
    SelectSeq([i \in 1..Min(Len(Y), Min(Len(X1), Len(X2))) |-> i],
              LAMBDA i : Y[i] # None /\ X1[i] # None /\ X2[i] # None)

MIN_ROWS_TWO == 4

(* The script computes in binary floating point; the model computes in exact  *)
(* rationals and lets the rounding show where a comparison depends on it.     *)
(* On the small integers of the model the sums are exact and the divisions by *)
(* the row count n round, unless n is a power of two.  When two products that  *)
(* are equal and non-zero in exact arithmetic are subtracted, the computed     *)
(* difference is then zero or a residue of either sign, since each product     *)
(* carries its own rounding error; rnd is the sign and 1/ULP_DEN the size of   *)
(* the residue.  Every other difference is exact, and so are a difference of   *)
(* two zeros (a constant predictor has variance and covariances exactly 0)     *)
(* and a difference of two values computed by the same operations (two         *)
(* identical columns).  In the same way the residual sum of a fit that is      *)
(* perfect in exact arithmetic is computed as zero or as a positive residue,   *)
(* unless the target is constant or identical to a predictor (then the         *)
(* coefficients and every error are exact).  The quotient of two residues can  *)
(* be any number; the model lets it be -1, 0 or 1.                             *)
\* the rounding that shows: none where the computation is exact
Inexact(rounds, rnd) == IF rounds THEN rnd ELSE 0

FSub(a, b, rnd) == IF a = b /\ a # RInt(0) THEN Residue(rnd) ELSE RSub(a, b)

SSRRounding == {0, 1}

FSumSquares(errors, SST, rnd) ==
    LET exact == RSum([j \in 1..Len(errors) |-> RSquare(errors[j])])
    IN  IF exact = RInt(0) /\ SST # RInt(0) THEN Residue(rnd) ELSE exact

\* the rounding of one call of ols_two_variables: of denom, of the two
\* numerators of beta1 and beta2, and of SSR.  Only the signs of the quotients
\* numerator/denom show in the result, so a residue of denom is taken positive.
Roundings == [denom : {1}, beta1 : Rounding, beta2 : Rounding, SSR : SSRRounding]

NoCancellation == [denom : {0}, beta1 : {0}, beta2 : {0}, SSR : SSRRounding]

Indeterminate2(n) ==
    [beta0 |-> None, beta1 |-> None, beta2 |-> None, R_squared |-> None, SSR |-> None, n |-> n]

\* every row kept, an absent cell read as 0
SelectOrZero(series, valid_rows) ==
    [j \in 1..Len(series) |-> IF series[j] = None THEN Some(0) ELSE series[j]]

\* the cells of a series in the rows kept
Select(series, valid_rows) == [j \in 1..Len(valid_rows) |-> series[valid_rows[j]]]

\* sum((y - mean_y)**2 for y in Y_valid)
SumSquaredDeviations(Y_valid) ==
    RNorm(SumDevProducts(Y_valid, Y_valid, Sum(Y_valid), Sum(Y_valid), Len(Y_valid)),
          Len(Y_valid) * Len(Y_valid))

\* the variances, covariances and means of the valid rows.  The residue of
\* the variance of a constant predictor makes denom a residue far below the
\* threshold of the guard, as the exact 0 does: it is taken as 0.
Moments2(Y_valid, X1_valid, X2_valid) ==
    [n |-> Len(Y_valid),
     var_x1 |-> Val(variance(X1_valid, 0)),
     var_x2 |-> Val(variance(X2_valid, 0)),
     cov_x1_x2 |-> Val(covariance(X1_valid, X2_valid)),
     cov_x1_y |-> Val(covariance(X1_valid, Y_valid)),
     cov_x2_y |-> Val(covariance(X2_valid, Y_valid)),
     mean_x1 |-> Val(mean(X1_valid)),
     mean_x2 |-> Val(mean(X2_valid)),
     mean_y |-> Val(mean(Y_valid)),
     SST |-> SumSquaredDeviations(Y_valid)]

\* denom = var_x1 * var_x2 - cov_x1_x2 ** 2
Denom(m, X1_valid, X2_valid, rnd) ==
    FSub(RMul(m.var_x1, m.var_x2), RSquare(m.cov_x1_x2),
         Inexact(~PowerOfTwo(m.n) /\ X1_valid # X2_valid, rnd.denom))

\* beta1, beta2 and beta0; with a residue for denom, the numerators are
\* residues as well
Coefficients2(m, denom, rnd) ==
    LET cancelled == RMul(m.var_x1, m.var_x2) = RSquare(m.cov_x1_x2)
        Minus(a, b, r) == IF cancelled THEN FSub(a, b, r) ELSE RSub(a, b)
    IN  [beta1 |-> RDiv(Minus(RMul(m.cov_x1_y, m.var_x2), RMul(m.cov_x2_y, m.cov_x1_x2), rnd.beta1),
                        denom),
         beta2 |-> RDiv(Minus(RMul(m.cov_x2_y, m.var_x1), RMul(m.cov_x1_y, m.cov_x1_x2), rnd.beta2),
                        denom)]

Intercept2(m, b) == RSub(RSub(m.mean_y, RMul(b.beta1, m.mean_x1)), RMul(b.beta2, m.mean_x2))

\* errors = [y - (beta0 + beta1 * x1 + beta2 * x2) for each valid row]
Errors2(Y_valid, X1_valid, X2_valid, beta0, b) ==
    [j \in 1..Len(Y_valid) |->
        RSub(RInt(Val(Y_valid[j])),
             RAdd(RAdd(beta0, RMul(b.beta1, RInt(Val(X1_valid[j])))),
                  RMul(b.beta2, RInt(Val(X2_valid[j])))))]

\* R_squared without the test of SST
RSquaredUnguarded(SSR, SST) == RSub(RInt(1), RDiv(SSR, SST))

\* R_squared = 1 - (SSR / SST) if SST > 0 else 0
RSquared(SSR, SST) == IF RLess(RInt(0), SST) THEN RSub(RInt(1), RDiv(SSR, SST)) ELSE RInt(0)

Determinate2(n, beta0, b, SSR, SST) ==
    [beta0 |-> Some(beta0), beta1 |-> Some(b.beta1), beta2 |-> Some(b.beta2),
     R_squared |-> Some(RSquared(SSR, SST)), SSR |-> Some(SSR), n |-> n]

\* the fit once beta1 and beta2 are known
Fitted2(Y_valid, X1_valid, X2_valid, m, beta0, b, rnd) ==
    Determinate2(m.n, beta0, b,
                 FSumSquares(Errors2(Y_valid, X1_valid, X2_valid, beta0, b), m.SST,
                             Inexact(~PowerOfTwo(m.n) /\ Y_valid # X1_valid /\ Y_valid # X2_valid,
                                     rnd.SSR)),
                 m.SST)

WithCoefficients2(Y_valid, X1_valid, X2_valid, m, b, rnd) ==
    Fitted2(Y_valid, X1_valid, X2_valid, m, Intercept2(m, b), b, rnd)

\* the fit once denom is known
Solve2(Y_valid, X1_valid, X2_valid, m, denom, rnd) ==
    IF NearSingular(denom) THEN Indeterminate2(m.n)
    ELSE WithCoefficients2(Y_valid, X1_valid, X2_valid, m, Coefficients2(m, denom, rnd), rnd)

\* the fit of the valid rows
WithMoments2(Y_valid, X1_valid, X2_valid, m, rnd) ==
    Solve2(Y_valid, X1_valid, X2_valid, m, Denom(m, X1_valid, X2_valid, rnd), rnd)

OnValidRows2(Y_valid, X1_valid, X2_valid, rnd) ==
    WithMoments2(Y_valid, X1_valid, X2_valid, Moments2(Y_valid, X1_valid, X2_valid), rnd)

ols_two_variables(Y, X1, X2, rnd) ==
    LET valid_rows == ValidRows3(Y, X1, X2) IN
    IF Len(valid_rows) < MIN_ROWS_TWO THEN Indeterminate2(0)
    ELSE OnValidRows2(Select(Y, valid_rows), Select(X1, valid_rows), Select(X2, valid_rows), rnd)

\* the inputs on which the computed denom can differ from the exact one
Cancels(Y, X1, X2) ==
    LET valid_rows == ValidRows3(Y, X1, X2)
        n == Len(valid_rows)
        X1_valid == [j \in 1..n |-> X1[valid_rows[j]]]
        X2_valid == [j \in 1..n |-> X2[valid_rows[j]]]
        product == RMul(Val(variance(X1_valid, 0)), Val(variance(X2_valid, 0)))
    IN  /\ n >= MIN_ROWS_TWO
        /\ ~PowerOfTwo(n) /\ X1_valid # X2_valid
        /\ product # RInt(0)
        /\ product = RSquare(Val(covariance(X1_valid, X2_valid)))

\* the roundings that give different results: without a cancellation the
\* result does not depend on rnd
RoundingsAt(Y, X1, X2) ==
    IF Cancels(Y, X1, X2) THEN NoCancellation \cup Roundings ELSE NoCancellation

ValidRows2(Y, X) ==
    SelectSeq([i \in 1..Min(Len(Y), Len(X)) |-> i], LAMBDA i : Y[i] # None /\ X[i] # None)

MIN_ROWS_ONE == 3

Indeterminate1(n) ==
    [beta0 |-> None, beta |-> None, R_squared |-> None, SSR |-> None, n |-> n]

\* the rounding of one call of ols_one_variable: of var_x, of cov_x_y and of
\* SSR.  With a residue for var_x, every x - mean_x is the same small number
\* and cov_x_y is that number times the computed sum of the y - mean_y, a
\* residue of either sign or zero.
Roundings1 == [var_x : {1}, cov_x_y : Rounding, SSR : SSRRounding]

NoRounding1 == [var_x : {0}, cov_x_y : {0}, SSR : SSRRounding]

Exact1 == [var_x |-> 0, cov_x_y |-> 0, SSR |-> 0]

Moments1(Y_valid, X_valid, rnd) ==
    [n |-> Len(Y_valid),
     var_x |-> variance(X_valid, rnd.var_x),
     cov_x_y |-> IF MeanRounds(X_valid) /\ rnd.var_x # 0 THEN Residue(rnd.cov_x_y)
                 ELSE Val(covariance(X_valid, Y_valid)),
     mean_x |-> Val(mean(X_valid)),
     mean_y |-> Val(mean(Y_valid)),
     SST |-> SumSquaredDeviations(Y_valid)]

\* the test the code makes of var_x
ZeroVariance(var_x) == var_x = None \/ var_x = Some(RInt(0))

Slope1(m) == RDiv(m.cov_x_y, Val(m.var_x))

Intercept1(m, beta) == RSub(m.mean_y, RMul(beta, m.mean_x))

\* errors = [y - (beta0 + beta * x) for each valid row]
Errors1(Y_valid, X_valid, beta0, beta) ==
    [j \in 1..Len(Y_valid) |->
        RSub(RInt(Val(Y_valid[j])), RAdd(beta0, RMul(beta, RInt(Val(X_valid[j])))))]

Determinate1(n, beta0, beta, SSR, SST) ==
    [beta0 |-> Some(beta0), beta |-> Some(beta),
     R_squared |-> Some(RSquared(SSR, SST)), SSR |-> Some(SSR), n |-> n]

Fitted1(Y_valid, X_valid, m, beta0, beta, rnd) ==
    Determinate1(m.n, beta0, beta,
                 FSumSquares(Errors1(Y_valid, X_valid, beta0, beta), m.SST,
                             Inexact(~PowerOfTwo(m.n) /\ Y_valid # X_valid, rnd.SSR)),
                 m.SST)

WithSlope1(Y_valid, X_valid, m, beta, rnd) ==
    Fitted1(Y_valid, X_valid, m, Intercept1(m, beta), beta, rnd)

WithMoments1(Y_valid, X_valid, m, rnd) ==
    IF ZeroVariance(m.var_x) THEN Indeterminate1(m.n)
    ELSE WithSlope1(Y_valid, X_valid, m, Slope1(m), rnd)

OnValidRows1(Y_valid, X_valid, rnd) ==
    WithMoments1(Y_valid, X_valid, Moments1(Y_valid, X_valid, rnd), rnd)

ols_one_variable(Y, X, rnd) ==
    LET valid_rows == ValidRows2(Y, X) IN
    IF Len(valid_rows) < MIN_ROWS_ONE THEN Indeterminate1(0)
    ELSE OnValidRows1(Select(Y, valid_rows), Select(X, valid_rows), rnd)

\* the roundings that give different results
Roundings1At(Y, X) ==
    IF MeanRounds(Select(X, ValidRows2(Y, X))) THEN NoRounding1 \cup Roundings1 ELSE NoRounding1

----------------------------------------------------------------------------
(* run_var.py : granger_test *)

Q_RESTRICTIONS == 1
K_PARAMS == 3
MIN_ROWS_GRANGER == 5

(* scipy.stats.f.cdf(F, 1, df2) is known here only by the class of its value: *)
(* it is 0 for F <= 0, and above 0.95 exactly when F exceeds the 5% critical   *)
(* value of the F(1, df2) distribution (in thousandths, df2 = 1..10).          *)
F_CRITICAL_05 == <<161448, 18513, 10128, 7709, 6608, 5987, 5591, 5318, 5117, 4965>>

stats_f_cdf(F, df1, df2) ==
    IF ~RLess(RInt(0), F) THEN "0"
    ELSE IF RLess(<<F_CRITICAL_05[df2], 1000>>, F) THEN "(0.95, 1)"
         ELSE "(0, 0.95]"

\* 1 - cdf
OneMinus(cdf) ==
    CASE cdf = "0" -> "1.0"
      [] cdf = "(0, 0.95]" -> "[0.05, 1)"
      [] cdf = "(0.95, 1)" -> "(0, 0.05)"

\* p_value < 0.05
BelowAlpha(p_value) == p_value = "(0, 0.05)"

(* The two residual sums are accumulated separately, so when they are equal   *)
(* in exact arithmetic the computed F is zero or a residue of either sign.     *)
(* A non-zero exact F keeps its value.                                         *)
Float(x, rnd) == IF x = RInt(0) THEN Residue(rnd) ELSE x

IndeterminateG ==
    [F |-> None, p_value |-> None, significant |-> None,
     cdf_arg |-> None, df1 |-> None, df2 |-> None]

\* the predictor the restricted model keeps, with the two exchanged
TestedPredictor(X1, X2, test_x1) == IF test_x1 THEN X1 ELSE X2

\* the predictor the restricted model keeps
KeptPredictor(X1, X2, test_x1) == IF test_x1 THEN X2 ELSE X1

RestrictedSSR(Y, X1, X2, test_x1, rnd) ==
    ols_one_variable(Y, KeptPredictor(X1, X2, test_x1), rnd).SSR

UnrestrictedUnusable(SSR_unrestricted, n) == SSR_unrestricted = None \/ n < MIN_ROWS_GRANGER

ZeroSSRUnguarded(SSR_unrestricted) == FALSE

ZeroSSR(SSR_unrestricted) == SSR_unrestricted = Some(RInt(0))

\* the residual sum divided by n instead of n - k
MeanSquaredErrorOverN(SSR_unrestricted, n, k) == RDiv(Val(SSR_unrestricted), RInt(n))

\* denominator = SSR_unrestricted / (n - k)
MeanSquaredError(SSR_unrestricted, n, k) == RDiv(Val(SSR_unrestricted), RInt(n - k))

\* Steps 3 and 4 of granger_test, from the two residual sums.  cdf_arg, df1
\* and df2 record the call of stats.f.cdf.  cdf_arg is not
\* part of the returned tuple: it records the call of stats.f.cdf.
FTest(SSR_unrestricted, SSR_restricted, n, rnd) ==
    LET q == Q_RESTRICTIONS
        k == K_PARAMS
    IN
    IF ZeroSSR(SSR_unrestricted) THEN IndeterminateG
    ELSE
    LET numerator == RDiv(RSub(Val(SSR_restricted), Val(SSR_unrestricted)), RInt(q))
        denominator == MeanSquaredError(SSR_unrestricted, n, k)
        F == Float(RDiv(numerator, denominator), Inexact(~PowerOfTwo(n), rnd))
        df1 == q
        df2 == n - k
        p_value == OneMinus(stats_f_cdf(F, df1, df2))
        significant == BelowAlpha(p_value)
    IN  [F |-> Some(F), p_value |-> Some(p_value), significant |-> Some(significant),
         cdf_arg |-> Some(F), df1 |-> Some(df1), df2 |-> Some(df2)]

\* granger_test, given the unrestricted fit u and the restricted residual sum
\* (which is only looked at when the unrestricted fit is usable)
GrangerFrom(u, SSR_restricted, rnd) ==
    IF UnrestrictedUnusable(u.SSR, u.n) THEN IndeterminateG
    ELSE IF SSR_restricted = None THEN IndeterminateG
    ELSE FTest(u.SSR, SSR_restricted, u.n, rnd)

\* rnd, rndR and rndF are the roundings of the unrestricted fit, of the
\* restricted fit and of F
granger_test(Y, X1, X2, test_x1, rnd, rndR, rndF) ==
    GrangerFrom(ols_two_variables(Y, X1, X2, rnd), RestrictedSSR(Y, X1, X2, test_x1, rndR), rndF)

----------------------------------------------------------------------------
(* The solvers applied to bounded inputs.  Rows are drawn from RowTypes and   *)
(* appended in non-decreasing order of their position in RowTypes: the        *)
(* solvers do not depend on the order of the rows.                            *)

Num(v) == Some(v)

RowTypes ==
    << <<Num(0), Num(0), Num(0)>>, <<Num(0), Num(0), Num(1)>>,
       <<Num(0), Num(1), Num(0)>>, <<Num(0), Num(1), Num(1)>>,
       <<Num(1), Num(0), Num(0)>>, <<Num(1), Num(0), Num(1)>>,
       <<Num(1), Num(1), Num(0)>>, <<Num(1), Num(1), Num(1)>>,
       <<None, Num(1), Num(0)>>, <<Num(1), None, Num(1)>>, <<Num(0), Num(1), None>> >>

LastRowType ==
    IF Len(argY) = 0 THEN 1
    ELSE CHOOSE j \in 1..Len(RowTypes) : RowTypes[j] = <<argY[Len(argY)], argX1[Len(argY)], argX2[Len(argY)]>>

InitOls ==
    /\ snaps = <<>> /\ rows = <<>> /\ rows_complete = <<>> /\ csv_out = <<>>
    /\ argY = <<>> /\ argX1 = <<>> /\ argX2 = <<>>
    /\ result = None
    /\ cdf_calls = <<>>
    /\ data = <<>> /\ out = <<>> /\ at = <<1, 1>>
    /\ NoFetcher
    /\ pc = "input"

AddRow ==
    /\ pc = "input"
    /\ Len(argY) < MaxLen
    /\ \E j \in LastRowType..Len(RowTypes) :
          /\ argY' = Append(argY, RowTypes[j][1])
          /\ argX1' = Append(argX1, RowTypes[j][2])
          /\ argX2' = Append(argX2, RowTypes[j][3])
    /\ UNCHANGED <<preVars, varVars, result, cdf_calls, pc, netVars>>

CallOlsTwo ==
    /\ pc = "input"
    /\ \E rnd \in RoundingsAt(argY, argX1, argX2) :
          result' = ols_two_variables(argY, argX1, argX2, rnd)
    /\ pc' = "ols_two_variables"
    /\ UNCHANGED <<preVars, varVars, argY, argX1, argX2, cdf_calls, netVars>>

CallOlsOne ==
    /\ pc = "input"
    /\ \E rnd \in Roundings1At(argY, argX1) : result' = ols_one_variable(argY, argX1, rnd)
    /\ pc' = "ols_one_variable"
    /\ UNCHANGED <<preVars, varVars, argY, argX1, argX2, cdf_calls, netVars>>

\* The restricted fits of the two directions, under every rounding, when the
\* call gets as far as fitting them.
RestrictedSSRs(Y, X1, X2, test_x1) ==
    IF Len(ValidRows3(Y, X1, X2)) < MIN_ROWS_GRANGER THEN {None}
    ELSE {RestrictedSSR(Y, X1, X2, test_x1, rnd) :
             rnd \in Roundings1At(Y, KeptPredictor(X1, X2, test_x1))}

RestrictedFits(Y, X1, X2) ==
    <<RestrictedSSRs(Y, X1, X2, TRUE), RestrictedSSRs(Y, X1, X2, FALSE)>>

\* result keeps, next to the returned tuple, the locals of the call
CallGranger ==
    /\ pc = "input"
    /\ \E fits \in {RestrictedFits(argY, argX1, argX2)} :
       \E rnd \in RoundingsAt(argY, argX1, argX2) :
       \E u \in {ols_two_variables(argY, argX1, argX2, rnd)} :
       \E test_x1 \in BOOLEAN, rndF \in Rounding :
       \E SSR_restricted \in fits[IF test_x1 THEN 1 ELSE 2] :
          LET g == GrangerFrom(u, SSR_restricted, rndF)
          IN  /\ result' = [F |-> g.F, p_value |-> g.p_value, significant |-> g.significant,
                            test_x1 |-> test_x1, SSR_unrestricted |-> u.SSR, n |-> u.n,
                            df1 |-> g.df1, df2 |-> g.df2,
                            SSR_restricted |-> IF UnrestrictedUnusable(u.SSR, u.n) THEN None
                                               ELSE SSR_restricted]
              /\ cdf_calls' = IF g.cdf_arg = None THEN cdf_calls
                              ELSE Append(cdf_calls, Val(g.cdf_arg))
    /\ pc' = "granger_test"
    /\ UNCHANGED <<preVars, varVars, argY, argX1, argX2, netVars>>

NextOls == AddRow \/ CallOlsTwo \/ CallOlsOne \/ CallGranger

SpecOls == InitOls /\ [][NextOls]_vars

----------------------------------------------------------------------------
(* The solvers' contracts, under SpecOls *)

ValidCount == Len(ValidRows3(argY, argX1, argX2))

ResultFields2 == {"beta0", "beta1", "beta2", "R_squared", "SSR"}

AllAbsent2(r) == \A f \in ResultFields2 : r[f] = None

AllPresent2(r) == \A f \in ResultFields2 : r[f] # None /\ ~IsRaised(Val(r[f]))

\* The predictors of the valid rows lie on one line a*X1 + b*X2 = c: they are
\* exactly collinear, or one of them is constant.
OnOneLine ==
    LET v == ValidRows3(argY, argX1, argX2)
        x1(j) == Val(argX1[v[j]])
        x2(j) == Val(argX2[v[j]])
    IN  \A i, j, k \in 1..Len(v) :
           (x1(j) - x1(i)) * (x2(k) - x2(i)) = (x1(k) - x1(i)) * (x2(j) - x2(i))

\* C5: ols_two_variables never raises; it returns the indeterminate result
\* (coefficients, R2 and SSR all absent) when fewer than 4 rows are valid or
\* the predictors are exactly collinear or one is constant (the case
\* |denom| < 1e-20), and a determinate result in every other case.
C5_IndeterminateIffDegenerate ==
    pc = "ols_two_variables" =>
        IF ValidCount < 4 \/ OnOneLine THEN AllAbsent2(result) ELSE AllPresent2(result)

ZeroX2 == Len(argX2) > 0 /\ \A i \in DOMAIN argX2 : argX2[i] = Some(0)

X1Varies ==
    LET v == ValidRows3(argY, argX1, argX2)
    IN  \E i, j \in 1..Len(v) : argX1[v[i]] # argX1[v[j]]

ZeroX2Case == pc = "ols_two_variables" /\ ZeroX2 /\ ValidCount >= 4 /\ X1Varies

\* C6 (as stated): with at least 4 valid rows, a non-constant X1 and X2
\* constant zero, the two-predictor fit has the intercept, slope, SSR and R2
\* of the one-predictor fit of Y on X1.
C6_ZeroX2ReducesToOneVariable ==
    ZeroX2Case =>
        \E rnd \in Roundings1At(argY, argX1) :
           LET o == ols_one_variable(argY, argX1, rnd)
           IN  /\ result.beta0 = o.beta0 /\ result.beta1 = o.beta
               /\ result.SSR = o.SSR /\ result.R_squared = o.R_squared

\* C6 (amended): with at least 4 valid rows, a non-constant X1 and X2
\* constant zero, the two-predictor fit is indeterminate (all five fields
\* absent, n the number of valid rows), while the one-predictor fit of Y on X1
\* is determinate.
C6_ZeroX2IsIndeterminate ==
    ZeroX2Case =>
        /\ AllAbsent2(result) /\ result.n = ValidCount
        /\ \A rnd \in Roundings1At(argY, argX1) :
              LET o == ols_one_variable(argY, argX1, rnd)
              IN  o.beta0 # None /\ o.beta # None /\ o.SSR # None /\ o.R_squared # None

C6_Witness == ZeroX2Case /\ AllAbsent2(result) /\ Len(argY) > ValidCount

\* C7: granger_test returns F, p_value and significant all absent whenever the
\* unrestricted fit is indeterminate, the restricted fit is indeterminate,
\* n < 5 or SSR_u = 0; the three fields are absent together or present
\* together, and F is never the result of a division by zero.
C7_GrangerIndeterminateTogether ==
    pc = "granger_test" =>
        /\ (\/ result.SSR_unrestricted = None
            \/ result.n < 5
            \/ result.SSR_restricted = None
            \/ result.SSR_unrestricted = Some(RInt(0)))
              => (result.F = None /\ result.p_value = None /\ result.significant = None)
        /\ (result.F = None) = (result.p_value = None)
        /\ (result.F = None) = (result.significant = None)
        /\ result.F # None => ~IsRaised(Val(result.F))

C7_Witness ==
    /\ pc = "granger_test"
    /\ result.n >= 5 /\ result.SSR_unrestricted = Some(RInt(0)) /\ result.SSR_restricted # None
    /\ result.F = None /\ result.p_value = None /\ result.significant = None

\* C8: when granger_test returns a negative F, p_value is 1.0 and significant
\* is false, and the F-distribution CDF has not been evaluated at a negative
\* argument.
C8_NegativeFShortCircuits ==
    (pc = "granger_test" /\ result.F # None /\ RLess(Val(result.F), RInt(0))) =>
        /\ result.p_value = Some("1.0") /\ result.significant = Some(FALSE)
        /\ \A i \in DOMAIN cdf_calls : ~RLess(cdf_calls[i], RInt(0))

----------------------------------------------------------------------------
(* run_var.py : run_var *)

\* a cell is read as a number and kept when the number is truthy
ColumnOfTruthyNumbers(d, c) ==
    [k \in 1..Len(d) |->
        IF d[k][c] # <<>> /\ float(d[k][c]) # 0 THEN Some(float(d[k][c])) ELSE None]

\* [float(row[c]) if row[c] else None for row in data]
Column(d, c) == [k \in 1..Len(d) |-> IF d[k][c] # <<>> THEN Some(float(d[k][c])) ELSE None]

Exact2 == [denom |-> 0, beta1 |-> 0, beta2 |-> 0, SSR |-> 0]

\* The roundings that can show in one regression and Granger test of run_var,
\* given whether the predictors cancel, the residual sum of the fit in exact
\* arithmetic and that of the restricted fit: those of a fit whose predictors
\* cancel, of a residual sum that is zero in exact arithmetic, and of an F
\* that is zero or a quotient of such sums.
FitRoundings(cancels, SSR_exact, SSR_restricted_exact, constant) ==
    [reg : IF cancels THEN NoCancellation \cup Roundings
           ELSE IF SSR_exact = Some(RInt(0)) THEN NoCancellation
           ELSE {Exact2},
     restricted : (IF cancels \/ SSR_restricted_exact = Some(RInt(0)) THEN NoRounding1 ELSE {Exact1})
                  \cup (IF constant THEN Roundings1 ELSE {}),
     F : IF cancels \/ SSR_exact = Some(RInt(0)) \/ SSR_restricted_exact = SSR_exact
         THEN Rounding ELSE {0}]

\* the columns run_var reads for a variable
Y1Of(variable_name, d) == Column(d, DeltaCol(Col("poly", variable_name)))
\* the Kalshi delta of the first variable, whatever the variable analysed
Y2OfFirstVariable(variable_name, d) == Column(d, DeltaCol(Col("kalshi", "mid")))

Y2Of(variable_name, d) == Column(d, DeltaCol(Col("kalshi", variable_name)))
X1Of(variable_name, d) == Column(d, LagCol(DeltaCol(Col("poly", variable_name))))
X2Of(variable_name, d) == Column(d, LagCol(DeltaCol(Col("kalshi", variable_name))))

\* the dictionary run_var returns, from what its two regressions and its two
\* Granger tests returned
Results(variable_name, reg1, kalshi_to_poly, reg2, poly_to_kalshi) ==
    [variable |-> variable_name,
     n_observations |-> reg1.n,
     reg1_alpha |-> reg1.beta0,
     reg1_beta_poly_lag |-> reg1.beta1,
     reg1_beta_kalshi_lag |-> reg1.beta2,
     reg1_r_squared |-> reg1.R_squared,
     reg2_alpha |-> reg2.beta0,
     reg2_beta_poly_lag |-> reg2.beta1,
     reg2_beta_kalshi_lag |-> reg2.beta2,
     reg2_r_squared |-> reg2.R_squared,
     granger_kalshi_to_poly_F |-> kalshi_to_poly.F,
     granger_kalshi_to_poly_p |-> kalshi_to_poly.p_value,
     granger_kalshi_to_poly_sig |-> kalshi_to_poly.significant,
     granger_poly_to_kalshi_F |-> poly_to_kalshi.F,
     granger_poly_to_kalshi_p |-> poly_to_kalshi.p_value,
     granger_poly_to_kalshi_sig |-> poly_to_kalshi.significant]

CdfArgs(g) == IF g.cdf_arg = None THEN <<>> ELSE <<Val(g.cdf_arg)>>

\* One regression of run_var and the Granger test on the same series: the
\* pairs <<fit, test>> the two calls can return.  Every intermediate value is
\* bound through a one-element set, so that it is computed once.
FitAndTest(Y, X1, X2, test_x1) ==
    UNION {
        {<<reg, GrangerFrom(reg, RestrictedSSR(Y, X1, X2, test_x1, rnd.restricted), rnd.F)>> :
            reg \in {ols_two_variables(Y, X1, X2, rnd.reg)}} :
        rnd \in UNION {FitRoundings(exact[1], exact[2], exact[3], exact[4]) :
                    exact \in {<<Cancels(Y, X1, X2),
                                 ols_two_variables(Y, X1, X2, Exact2).SSR,
                                 RestrictedSSR(Y, X1, X2, test_x1, Exact1),
                                 Roundings1At(Y, KeptPredictor(X1, X2, test_x1)) # NoRounding1>>}}}

\* the pairs <<dictionary returned, arguments stats.f.cdf was evaluated at>>
\* of run_var(variable_name, d)
RunVarOutcomes(variable_name, d) ==
    UNION {
        {<<Results(variable_name, first[1], first[2], second[1], second[2]),
           CdfArgs(first[2]) \o CdfArgs(second[2])>> :
            first \in FitAndTest(cols[1], cols[3], cols[4], FALSE),
            second \in FitAndTest(cols[2], cols[3], cols[4], TRUE)} :
        cols \in {<<Y1Of(variable_name, d), Y2Of(variable_name, d),
                    X1Of(variable_name, d), X2Of(variable_name, d)>>}}

\* run_var(variable_name, data): result and cdf_calls after the call
run_var(variable_name) ==
    \E outcome \in RunVarOutcomes(variable_name, data) :
        /\ result' = outcome[1]
        /\ cdf_calls' = outcome[2]

----------------------------------------------------------------------------
(* run_var.py : the reporting of main *)

\* the names of VARIABLES that the preprocessing model computes, in the
\* order of the source
VARIABLES_LIST ==
    <<"mid", "spread", "best_bid_yes", "best_bid_no",
      "depth_best_yes", "depth_best_no", "depth_top3_yes", "depth_top3_no",
      "total_depth_yes", "total_depth_no", "depth_5c_yes", "depth_5c_no",
      "num_levels_yes", "num_levels_no">>

tier1 == <<"mid", "spread", "best_bid_yes", "best_bid_no">>
tier2 == <<"depth_best_yes", "depth_best_no", "depth_top3_yes", "depth_top3_no",
           "total_depth_yes", "total_depth_no">>
tier3 == <<>>
tier4 == <<"depth_5c_yes", "depth_5c_no", "num_levels_yes", "num_levels_no">>

\* the four tier tables and the appendix table
Tables == <<tier1, tier2, tier3, tier4, VARIABLES_LIST>>
APPENDIX == Len(Tables)

\* the truth value of a significance flag (None is falsy)
TruthyFlag(o) == o # None /\ Val(o)

\* print_var_results formats the coefficients, R2, F and p of both
\* regressions and both tests; formatting None raises TypeError
PrintVarResultsRaises(results) ==
    \E f \in {"reg1_alpha", "reg1_beta_poly_lag", "reg1_beta_kalshi_lag", "reg1_r_squared",
              "reg2_alpha", "reg2_beta_poly_lag", "reg2_beta_kalshi_lag", "reg2_r_squared",
              "granger_kalshi_to_poly_F", "granger_kalshi_to_poly_p",
              "granger_poly_to_kalshi_F", "granger_poly_to_kalshi_p"} :
        results[f] = None

\* the verdict with the two leaders exchanged
LeaderExchanged(p2k_sig, k2p_sig) ==
    IF TruthyFlag(p2k_sig) /\ ~TruthyFlag(k2p_sig) THEN "KALSHI"
    ELSE IF TruthyFlag(k2p_sig) /\ ~TruthyFlag(p2k_sig) THEN "POLY"
    ELSE IF TruthyFlag(p2k_sig) /\ TruthyFlag(k2p_sig) THEN "BOTH"
    ELSE "-"

Leader(p2k_sig, k2p_sig) ==
    IF TruthyFlag(p2k_sig) /\ ~TruthyFlag(k2p_sig) THEN "POLY"
    ELSE IF TruthyFlag(k2p_sig) /\ ~TruthyFlag(p2k_sig) THEN "KALSHI"
    ELSE IF TruthyFlag(p2k_sig) /\ TruthyFlag(k2p_sig) THEN "BOTH"
    ELSE "-"

\* f"F={F:.1f}" + ("***" if sig else "")
FCell(F, sig) == [text |-> "F=", F |-> F, stars |-> TruthyFlag(sig)]
NACell(sig) == [text |-> "N/A", F |-> None, stars |-> TruthyFlag(sig)]
NoCell == [text |-> "", F |-> None, stars |-> FALSE]

Line(table, var, kind, poly_to_kalshi, kalshi_to_poly, leader) ==
    [table |-> table, variable |-> var, kind |-> kind,
     poly_to_kalshi |-> poly_to_kalshi, kalshi_to_poly |-> kalshi_to_poly, leader |-> leader]

ErrorLine(table, var) == Line(table, var, "ERROR", NoCell, NoCell, "")

\* the body of the loop of print_tier_results: the lines it prints for var
TierLines(table, var, r) ==
    IF r.reg1_r_squared = None THEN <<>>
    ELSE IF r.granger_poly_to_kalshi_F = None \/ r.granger_kalshi_to_poly_F = None
    THEN <<ErrorLine(table, var)>>
    ELSE <<Line(table, var, "row",
                FCell(r.granger_poly_to_kalshi_F, r.granger_poly_to_kalshi_sig),
                FCell(r.granger_kalshi_to_poly_F, r.granger_kalshi_to_poly_sig),
                Leader(r.granger_poly_to_kalshi_sig, r.granger_kalshi_to_poly_sig))>>

\* the body of the appendix loop of main
AppendixLines(table, var, r) ==
    IF r.reg1_r_squared = None THEN <<>>
    ELSE IF r.reg2_r_squared = None THEN <<ErrorLine(table, var)>>
    ELSE LET Cell(F, sig) == IF F # None /\ Val(F) # RInt(0) THEN FCell(F, sig) ELSE NACell(sig)
         IN  <<Line(table, var, "row",
                    Cell(r.granger_poly_to_kalshi_F, r.granger_poly_to_kalshi_sig),
                    Cell(r.granger_kalshi_to_poly_F, r.granger_kalshi_to_poly_sig),
                    Leader(r.granger_poly_to_kalshi_sig, r.granger_kalshi_to_poly_sig))>>

----------------------------------------------------------------------------
(* The whole pipeline on a market of VarPeriods intervals: the books below,  *)
(* or the same books with one side or both sides of one platform empty in    *)
(* one interval.  Best prices are such that every mid price is a whole       *)
(* number of cents.                                                          *)

VarPeriods == 8

Snap(poly_yes, poly_no, kalshi_yes, kalshi_no) ==
    [polymarket |-> [yes_bids |-> poly_yes, no_bids |-> poly_no],
     kalshi |-> [yes_bids |-> kalshi_yes, no_bids |-> kalshi_no]]

BaseBooks ==
    <<  Snap(<<Order(50, 5), Order(48, 2)>>, <<Order(46, 4)>>,
            <<Order(49, 3), Order(47, 2)>>, <<Order(47, 6)>>),
       Snap(<<Order(51, 6), Order(49, 2)>>, <<Order(45, 4)>>,
            <<Order(49, 4), Order(47, 2)>>, <<Order(47, 6)>>),
       Snap(<<Order(51, 5), Order(49, 2), Order(43, 1)>>, <<Order(45, 5)>>,
            <<Order(50, 3), Order(48, 2), Order(42, 1)>>, <<Order(46, 6)>>),
       Snap(<<Order(52, 6), Order(50, 2)>>, <<Order(44, 4)>>,
            <<Order(50, 3), Order(48, 2)>>, <<Order(48, 6)>>),
       Snap(<<Order(51, 7), Order(49, 2)>>, <<Order(45, 5)>>,
            <<Order(51, 4), Order(49, 2)>>, <<Order(47, 6)>>),
       Snap(<<Order(52, 6), Order(50, 2), Order(44, 1)>>, <<Order(46, 5)>>,
            <<Order(50, 5), Order(48, 2)>>, <<Order(46, 6)>>),
       Snap(<<Order(53, 6), Order(51, 2)>>, <<Order(45, 4)>>,
            <<Order(51, 4), Order(49, 2), Order(43, 1)>>, <<Order(45, 6)>>),
       Snap(<<Order(52, 7), Order(50, 2)>>, <<Order(44, 5)>>,
            <<Order(52, 4), Order(50, 2)>>, <<Order(46, 6)>>),
       Snap(<<Order(53, 6), Order(51, 2)>>, <<Order(45, 4)>>,
            <<Order(51, 5), Order(49, 2)>>, <<Order(45, 6)>>) >>

BaseSnapshots == SubSeq(BaseBooks, 1, VarPeriods)

Outages == {{"yes_bids"}, {"yes_bids", "no_bids"}}

EmptySides(book, sides) == [side \in DOMAIN book |-> IF side \in sides THEN <<>> ELSE book[side]]

WithOutage(seq, k, p, sides) ==
    [seq EXCEPT ![k] = IF p = "poly"
                       THEN [@ EXCEPT !.polymarket = EmptySides(@, sides)]
                       ELSE [@ EXCEPT !.kalshi = EmptySides(@, sides)]]

VarSnapshotSeqs ==
    {BaseSnapshots}
    \cup {WithOutage(BaseSnapshots, k, p, sides) :
            k \in 1..VarPeriods, p \in Platforms, sides \in Outages}

InitVar ==
    /\ snaps \in VarSnapshotSeqs
    /\ rows = <<>>
    /\ rows_complete = <<>>
    /\ csv_out = <<>>
    /\ pc = "extract"
    /\ argY = <<>> /\ argX1 = <<>> /\ argX2 = <<>>
    /\ result = None
    /\ cdf_calls = <<>>
    /\ data = <<>> /\ out = <<>> /\ at = <<1, 1>>
    /\ NoFetcher

\* data = list(csv.DictReader(f)), once the file has been written
LoadCsv ==
    /\ pc \in {"shown", "crashed"}
    /\ csv_out # <<>>
    /\ data' = csv_out
    /\ pc' = "detail"
    /\ UNCHANGED <<preVars, olsVars, out, at, netVars>>

\* the variable after position i of table t, <<Len(Tables) + 1, 1>> after the last
RECURSIVE NextAt(_, _)
NextAt(t, i) ==
    IF t > Len(Tables) THEN <<t, 1>>
    ELSE IF i < Len(Tables[t]) THEN <<t, i + 1>>
    ELSE NextAt(t + 1, 0)

PcAt(pos) ==
    IF pos[1] < APPENDIX THEN "tiers"
    ELSE IF pos[1] = APPENDIX THEN "appendix"
    ELSE "finished"

\* the "Interpretation" that ends print_var_results, with the two F
\* statistics printed above it
InterpretationLines(r) ==
    <<Line(0, r.variable, "interpretation",
           FCell(r.granger_poly_to_kalshi_F, r.granger_poly_to_kalshi_sig),
           FCell(r.granger_kalshi_to_poly_F, r.granger_kalshi_to_poly_sig),
           Leader(r.granger_poly_to_kalshi_sig, r.granger_kalshi_to_poly_sig))>>

\* results = run_var("mid", data); print_var_results(results);
\* print_detailed_explanation(results), outside any try
DetailedAnalysis ==
    /\ pc = "detail"
    /\ run_var("mid")
    /\ pc' = IF PrintVarResultsRaises(result') THEN "aborted" ELSE PcAt(NextAt(1, 0))
    /\ out' = IF PrintVarResultsRaises(result') THEN <<>> ELSE InterpretationLines(result')
    /\ at' = NextAt(1, 0)
    /\ UNCHANGED <<preVars, argY, argX1, argX2, data, netVars>>

\* one pass of the loop of print_tier_results
TierRow ==
    /\ pc = "tiers"
    /\ \E var \in {Tables[at[1]][at[2]]} :
          /\ run_var(var)
          /\ out' = TierLines(at[1], var, result')
    /\ at' = NextAt(at[1], at[2])
    /\ pc' = PcAt(at')
    /\ UNCHANGED <<preVars, argY, argX1, argX2, data, netVars>>

\* one pass of the appendix loop of main
AppendixRow ==
    /\ pc = "appendix"
    /\ \E var \in {Tables[at[1]][at[2]]} :
          /\ run_var(var)
          /\ out' = AppendixLines(at[1], var, result')
    /\ at' = NextAt(at[1], at[2])
    /\ pc' = PcAt(at')
    /\ UNCHANGED <<preVars, argY, argX1, argX2, data, netVars>>

NextVar == NextPre \/ LoadCsv \/ DetailedAnalysis \/ TierRow \/ AppendixRow

SpecVar == InitVar /\ [][NextVar]_vars

----------------------------------------------------------------------------
(* Properties of the pipeline and of the reporting, under SpecVar *)

Loaded == pc \in {"detail", "tiers", "appendix", "finished", "aborted"}

\* the data rows (feature rows, from 1) that the regression of variable v
\* with the delta of platform q as target keeps
ValidDataRows(v, q) ==
    LET Y == IF q = "poly" THEN Y1Of(v, data) ELSE Y2Of(v, data)
        valid_rows == ValidRows3(Y, X1Of(v, data), X2Of(v, data))
    IN  {valid_rows[j] : j \in DOMAIN valid_rows}

\* C4: if the value of a series is absent in period j (1 <= j <= n-3), then
\* delta[j], delta[j+1], lag[j+1] and lag[j+2] of the series are absent, and
\* every feature row in which one of these cells is the Y, X1 or X2 of a
\* regression is left out of the valid rows of that regression.  (Period j is
\* rows[j + 1]; the feature row of period m >= 2 is data[m - 1].)
C4_MissingValuePropagates ==
    Loaded =>
        \A p \in Platforms : \A v \in VarNames : \A k \in 2..(Len(rows) - 2) :
            rows[k][Col(p, v)] = None =>
                LET d == DeltaCol(Col(p, v))
                    l == LagCol(d)
                IN  /\ rows[k][d] = None /\ rows[k + 1][d] = None
                    /\ rows[k + 1][l] = None /\ rows[k + 2][l] = None
                    /\ \A q \in Platforms : \A m \in 3..Len(rows) :
                          ((q = p /\ m \in {k, k + 1}) \/ m \in {k + 1, k + 2})
                              => (m - 2) \notin ValidDataRows(v, q)

\* run_var has fitted a variable one of whose series has a value absent in a
\* period j >= 2 after a present one, and some feature rows remain valid
C4_Witness ==
    /\ pc \in {"tiers", "appendix", "finished", "aborted"}
    /\ \E p \in Platforms : \E k \in 3..(Len(rows) - 2) :
          /\ rows[k][Col(p, result.variable)] = None
          /\ rows[k - 1][Col(p, result.variable)] # None
          /\ ValidDataRows(result.variable, p) # {}

\* a pass of a reporting loop has just been made, for the variable
\* result.variable
Passed == pc \in {"tiers", "appendix", "finished"} /\ at # NextAt(1, 0)

\* C9: for every variable of a tier table and of the appendix table exactly
\* one row is printed; the row of a variable whose regression or Granger test
\* is indeterminate says "insufficient data", and no row is an error line.
C9_OneRowPerVariable ==
    Passed =>
        /\ Len(out) = 1
        /\ \A k \in DOMAIN out :
              /\ out[k].variable = result.variable
              /\ out[k].kind # "ERROR"
              /\ (out[k].poly_to_kalshi.F = None \/ out[k].kalshi_to_poly.F = None)
                    => out[k].kind = "insufficient data"

\* C10: main is never aborted by an indeterminate result, that of "mid" in
\* the detailed analysis included.
C10_NeverAborted == pc # "aborted"

----------------------------------------------------------------------------
(* The statistics primitives and the one-predictor solver applied to two     *)
(* series built independently of each other, so that the lengths can differ. *)
(* x_values is argX1, y_values is argX2; for the solver Y is argX1 and X is   *)
(* argX2.                                                                     *)

StatLen == 4

StatValues == {None, Some(0), Some(1)}

InitStat ==
    /\ snaps = <<>> /\ rows = <<>> /\ rows_complete = <<>> /\ csv_out = <<>>
    /\ argY = <<>> /\ argX1 = <<>> /\ argX2 = <<>>
    /\ result = None
    /\ cdf_calls = <<>>
    /\ data = <<>> /\ out = <<>> /\ at = <<1, 1>>
    /\ NoFetcher
    /\ pc = "series"

AddX ==
    /\ pc = "series"
    /\ Len(argX1) < StatLen
    /\ \E v \in StatValues : argX1' = Append(argX1, v)
    /\ UNCHANGED <<preVars, varVars, argY, argX2, result, cdf_calls, pc, netVars>>

AddY ==
    /\ pc = "series"
    /\ Len(argX2) < StatLen
    /\ \E v \in StatValues : argX2' = Append(argX2, v)
    /\ UNCHANGED <<preVars, varVars, argY, argX1, result, cdf_calls, pc, netVars>>

CallMean ==
    /\ pc = "series"
    /\ result' = mean(argX1)
    /\ pc' = "mean"
    /\ UNCHANGED <<preVars, varVars, argY, argX1, argX2, cdf_calls, netVars>>

CallVariance ==
    /\ pc = "series"
    /\ \E rnd \in VarRounding : result' = variance(argX1, rnd)
    /\ pc' = "variance"
    /\ UNCHANGED <<preVars, varVars, argY, argX1, argX2, cdf_calls, netVars>>

CallCovariance ==
    /\ pc = "series"
    /\ result' = covariance(argX1, argX2)
    /\ pc' = "covariance"
    /\ UNCHANGED <<preVars, varVars, argY, argX1, argX2, cdf_calls, netVars>>

CallOlsOneOnSeries ==
    /\ pc = "series"
    /\ \E rnd \in Roundings1At(argX1, argX2) : result' = ols_one_variable(argX1, argX2, rnd)
    /\ pc' = "ols_one_variable"
    /\ UNCHANGED <<preVars, varVars, argY, argX1, argX2, cdf_calls, netVars>>

NextStat == AddX \/ AddY \/ CallMean \/ CallVariance \/ CallCovariance \/ CallOlsOneOnSeries

SpecStat == InitStat /\ [][NextStat]_vars

----------------------------------------------------------------------------
(* The contracts of the primitives, under SpecStat *)

\* the positions at which both series have a value, in increasing order
JointPositions ==
    SelectSeq([i \in 1..Min(Len(argX1), Len(argX2)) |-> i],
              LAMBDA i : i \in DOMAIN argX1 /\ i \in DOMAIN argX2
                         /\ argX1[i] # None /\ argX2[i] # None)

\* the values of a series at the joint positions, as rationals
AtJointPositions(series) == [j \in DOMAIN JointPositions |-> RInt(Val(series[JointPositions[j]]))]

\* the arithmetic mean of a non-empty sequence of rationals
MeanOf(values) == RDiv(RSum(values), RInt(Len(values)))

\* the mean of the products of the deviations from the two means
PopulationCovariance(xs, ys) ==
    MeanOf([j \in DOMAIN xs |-> RMul(RSub(xs[j], MeanOf(xs)), RSub(ys[j], MeanOf(ys)))])

\* C11: a call of covariance or of a solver on series of different lengths is
\* rejected: it never returns a value (so no value computed from the longer
\* series cut to the length of the shorter one).
C11_MismatchedLengthsRejected ==
    Len(argX1) # Len(argX2) => pc \notin {"covariance", "ols_one_variable"}

----------------------------------------------------------------------------
(* The reporting functions applied to the dictionaries run_var can return:   *)
(* each regression is indeterminate (and then so is its Granger test) or     *)
(* determinate with a test that is indeterminate or has a negative, a zero,   *)
(* an insignificant or a significant F.                                       *)

SampleFit ==
    [beta0 |-> Some(RInt(0)), beta1 |-> Some(RInt(1)), beta2 |-> Some(RInt(0)),
     R_squared |-> Some(RNorm(1, 2)), SSR |-> Some(RInt(2)), n |-> 6]

SampleRestrictedSSRs == {RInt(1), RInt(2), RInt(3), RInt(30)}

SampleRuns ==
    {<<Indeterminate2(0), IndeterminateG>>, <<SampleFit, IndeterminateG>>}
    \cup {<<SampleFit, FTest(SampleFit.SSR, Some(ssr), SampleFit.n, 0)>> : ssr \in SampleRestrictedSSRs}

InitReport ==
    /\ snaps = <<>> /\ rows = <<>> /\ rows_complete = <<>> /\ csv_out = <<>>
    /\ argY = <<>> /\ argX1 = <<>> /\ argX2 = <<>>
    /\ result \in {Results("mid", first[1], first[2], second[1], second[2]) :
                      first \in SampleRuns, second \in SampleRuns}
    /\ cdf_calls = <<>>
    /\ data = <<>> /\ out = <<>> /\ at = <<1, 1>>
    /\ NoFetcher
    /\ pc = "results"

\* print_var_results(results)
ReportInterpretation ==
    /\ pc = "results"
    /\ pc' = IF PrintVarResultsRaises(result) THEN "raised" ELSE "interpretation printed"
    /\ out' = IF PrintVarResultsRaises(result) THEN <<>> ELSE InterpretationLines(result)
    /\ UNCHANGED <<preVars, argY, argX1, argX2, result, cdf_calls, data, at, netVars>>

\* the body of the loop of print_tier_results, after run_var
ReportTierRow ==
    /\ pc = "results"
    /\ pc' = "tier row printed"
    /\ out' = TierLines(1, result.variable, result)
    /\ UNCHANGED <<preVars, argY, argX1, argX2, result, cdf_calls, data, at, netVars>>

\* the body of the appendix loop of main, after run_var
ReportAppendixRow ==
    /\ pc = "results"
    /\ pc' = "appendix row printed"
    /\ out' = AppendixLines(APPENDIX, result.variable, result)
    /\ UNCHANGED <<preVars, argY, argX1, argX2, result, cdf_calls, data, at, netVars>>

NextReport == ReportInterpretation \/ ReportTierRow \/ ReportAppendixRow

SpecReport == InitReport /\ [][NextReport]_vars

----------------------------------------------------------------------------
(* The verdict, under SpecReport *)

\* the lines of the last pass that carry a verdict
VerdictLines == {k \in DOMAIN out : out[k].kind \in {"row", "interpretation"}}

\* C12: the verdict printed for a variable is a function of its two
\* significance flags, one of four: POLY exactly when Poly->Kalshi is
\* significant and Kalshi->Poly is not, KALSHI exactly when Kalshi->Poly is
\* significant and Poly->Kalshi is not, BOTH exactly when both are, and "-"
\* (no relationship) exactly when neither is.
C12_VerdictByFlags ==
    \A k \in VerdictLines :
        LET a_to_b == TruthyFlag(result.granger_poly_to_kalshi_sig)
            b_to_a == TruthyFlag(result.granger_kalshi_to_poly_sig)
        IN  /\ out[k].leader \in {"POLY", "KALSHI", "BOTH", "-"}
            /\ (out[k].leader = "POLY") = (a_to_b /\ ~b_to_a)
            /\ (out[k].leader = "KALSHI") = (b_to_a /\ ~a_to_b)
            /\ (out[k].leader = "BOTH") = (a_to_b /\ b_to_a)
            /\ (out[k].leader = "-") = (~a_to_b /\ ~b_to_a)

\* Kalshi->Poly alone is significant and a tier row carries the verdict
C12_Witness ==
    /\ pc = "tier row printed"
    /\ result.granger_kalshi_to_poly_sig = Some(TRUE)
    /\ result.granger_poly_to_kalshi_sig = Some(FALSE)
    /\ \E k \in VerdictLines : out[k].leader = "KALSHI"

----------------------------------------------------------------------------
(* The directions of the two Granger tests of run_var, under SpecVar *)

\* run_var has returned the dictionary result
Ran == pc \in {"tiers", "appendix", "finished", "aborted"}

\* The outcomes <<F, p_value, significant>> of testing whether the predictor
\* left out of the restricted model Y ~ X_kept improves the model
\* Y ~ X1 + X2.
TestOutcomes(Y, X1, X2, X_kept) ==
    UNION { UNION { { <<g.F, g.p_value, g.significant>> :
                        g \in {GrangerFrom(u, SSR_restricted, rndF) : rndF \in Rounding} } :
                    SSR_restricted \in {ols_one_variable(Y, X_kept, rndR).SSR :
                                           rndR \in Roundings1At(Y, X_kept)} } :
            u \in {ols_two_variables(Y, X1, X2, rnd) : rnd \in RoundingsAt(Y, X1, X2)} }

\* C13: the Kalshi->Poly test of run_var has the Poly delta as target and the
\* model Poly delta ~ Poly lag as restricted model; the Poly->Kalshi test has
\* the Kalshi delta as target and Kalshi delta ~ Kalshi lag as restricted
\* model; and the verdict POLY is printed only when the Poly->Kalshi flag is
\* set.
C13_TestDirections ==
    Ran =>
        LET v == result.variable
            dPoly == Y1Of(v, data)
            dKalshi == Y2Of(v, data)
            lagPoly == X1Of(v, data)
            lagKalshi == X2Of(v, data)
        IN  /\ <<result.granger_kalshi_to_poly_F, result.granger_kalshi_to_poly_p,
                  result.granger_kalshi_to_poly_sig>>
                    \in TestOutcomes(dPoly, lagPoly, lagKalshi, lagPoly)
            /\ <<result.granger_poly_to_kalshi_F, result.granger_poly_to_kalshi_p,
                  result.granger_poly_to_kalshi_sig>>
                    \in TestOutcomes(dKalshi, lagPoly, lagKalshi, lagKalshi)
            /\ \A k \in VerdictLines :
                  out[k].leader = "POLY" => result.granger_poly_to_kalshi_sig = Some(TRUE)

\* both tests of a variable are determinate, with different F, and the
\* verdict printed is POLY
C13_Witness ==
    /\ Ran
    /\ result.granger_kalshi_to_poly_F # None /\ result.granger_poly_to_kalshi_F # None
    /\ result.granger_kalshi_to_poly_F # result.granger_poly_to_kalshi_F
    /\ \E k \in VerdictLines : out[k].leader = "POLY"

----------------------------------------------------------------------------
(* The one-predictor solver, under SpecOls *)

\* the rows of Y and X1 in which both are present
YOfPairs == Select(argY, ValidRows2(argY, argX1))
XOfPairs == Select(argX1, ValidRows2(argY, argX1))

ConstantSeries(valid) == \A i, j \in DOMAIN valid : valid[i] = valid[j]

\* C14: ols_one_variable never raises; it returns the indeterminate result
\* when fewer than 3 rows have Y and X present or X is constant over those
\* rows (Var(X) = 0), and otherwise beta = Cov(X,Y)/Var(X) and
\* beta0 = mean(Y) - beta*mean(X) over those rows.
C14_OneVariableIndeterminateIffDegenerate ==
    pc = "ols_one_variable" =>
        IF Len(XOfPairs) < 3 \/ ConstantSeries(XOfPairs)
        THEN /\ result.beta0 = None /\ result.beta = None
             /\ result.R_squared = None /\ result.SSR = None
        ELSE LET beta == RDiv(Val(covariance(XOfPairs, YOfPairs)), ExactVariance(XOfPairs))
             IN  /\ result.beta = Some(beta)
                 /\ result.beta0 = Some(RSub(Val(mean(YOfPairs)), RMul(beta, Val(mean(XOfPairs)))))
                 /\ ~IsRaised(beta)

----------------------------------------------------------------------------
(* R2 of the two solvers, under SpecOls *)

\* the target over the rows the solver that was called keeps
TargetKept ==
    IF pc = "ols_two_variables" THEN Select(argY, ValidRows3(argY, argX1, argX2)) ELSE YOfPairs

\* the sum over the series of (y - mean)^2
TotalSumOfSquares(Y_valid) ==
    RSum([j \in DOMAIN Y_valid |-> RSquare(RSub(RInt(Val(Y_valid[j])), Val(mean(Y_valid))))])

Fitted == pc \in {"ols_two_variables", "ols_one_variable"} /\ result.R_squared # None

----------------------------------------------------------------------------
(* The rows the two-predictor solver uses, under SpecOls *)

\* the rows with an absent field
IncompleteRows ==
    {i \in DOMAIN argY : argY[i] = None \/ argX1[i] = None \/ argX2[i] = None}

\* the series with the rows of a set removed
Without(series, dropped) ==
    LET idx == SelectSeq([i \in DOMAIN series |-> i], LAMBDA i : i \notin dropped)
    IN  [j \in DOMAIN idx |-> series[idx[j]]]

\* the result is one the solver returns for Y, X1, X2, whose computation
\* rounds where the computation of the call rounds
SameFit(Y, X1, X2, roundings) ==
    /\ RoundingsAt(Y, X1, X2) = roundings
    /\ \E rnd \in roundings : result = ols_two_variables(Y, X1, X2, rnd)

\* the rows that row i can become by a change of its present cells
ChangedRows(i) ==
    {row \in StatValues \X StatValues \X StatValues :
        /\ (row[1] = None) = (argY[i] = None)
        /\ (row[2] = None) = (argX1[i] = None)
        /\ (row[3] = None) = (argX2[i] = None)
        /\ row # <<argY[i], argX1[i], argX2[i]>>}

\* C16: ols_two_variables uses exactly the rows in which Y, X1 and X2 are all
\* present: the result of a call is also the result for the series without
\* the rows that have an absent field, and for the series with the present
\* cells of such a row changed.
C16_JointlyValidRows ==
    pc = "ols_two_variables" =>
        \A roundings \in {RoundingsAt(argY, argX1, argX2)} :
            /\ SameFit(Without(argY, IncompleteRows), Without(argX1, IncompleteRows),
                       Without(argX2, IncompleteRows), roundings)
            /\ \A i \in IncompleteRows : \A row \in ChangedRows(i) :
                  SameFit([argY EXCEPT ![i] = row[1]], [argX1 EXCEPT ![i] = row[2]],
                          [argX2 EXCEPT ![i] = row[3]], roundings)

\* a determinate fit of series with a row that has an absent field
C16_Witness ==
    /\ pc = "ols_two_variables" /\ result.beta0 # None
    /\ IncompleteRows # {}

\* C17: covariance(xs, ys) is the population covariance of the pairs at the
\* positions where both series have a value, with both means taken over those
\* positions only; it is absent when there is no such position.
C17_CovarianceOverJointPositions ==
    pc = "covariance" =>
        IF Len(JointPositions) = 0 THEN result = None
        ELSE result = Some(PopulationCovariance(AtJointPositions(argX1), AtJointPositions(argX2)))

\* covariance has returned a value for series in which a value of x has no
\* partner and the mean of x over the joint positions is not that of all of x
C17_Witness ==
    /\ pc = "covariance" /\ result # None
    /\ Len(JointPositions) < Len(Present(argX1))
    /\ mean(argX1) # Some(MeanOf(AtJointPositions(argX1)))
    /\ result # Some(RInt(0))

\* the values present in x_values, as rationals
PresentValues == [j \in DOMAIN Present(argX1) |-> RInt(Val(Present(argX1)[j]))]

\* C18: variance(xs) is absent exactly when no value is present; otherwise it
\* is the population variance of the present values (the mean of the squared
\* deviations, divided by their count), it is never negative, and it is
\* exactly 0 when the present values are all equal.
C18_PopulationVariance ==
    pc = "variance" =>
        IF Len(PresentValues) = 0 THEN result = None
        ELSE /\ result # None
             /\ ~RLess(Val(result), RInt(0))
             /\ IF ConstantSeries(PresentValues) THEN result = Some(RInt(0))
                ELSE result = Some(PopulationCovariance(PresentValues, PresentValues))

----------------------------------------------------------------------------
(* The F statistic of granger_test, under SpecOls *)

\* C19: for every determinate result of granger_test,
\* F = (SSR_r - SSR_u) / (SSR_u / (n - 3)) with n the number of valid rows of
\* the unrestricted model, the F distribution is evaluated with (1, n - 3)
\* degrees of freedom, p_value is 1 - cdf(F), and significant is true exactly
\* when p_value < 0.05.  (When the two residual sums are equal in exact
\* arithmetic their computed values can differ in the last place: F is then
\* zero or a rounding residue.)
C19_FStatistic ==
    (pc = "granger_test" /\ result.F # None) =>
        LET n == ValidCount
            SSR_r == Val(result.SSR_restricted)
            SSR_u == Val(result.SSR_unrestricted)
            F == Val(result.F)
        IN  /\ result.n = n
            /\ IF SSR_r = SSR_u THEN F \in {Residue(rnd) : rnd \in Rounding}
               ELSE F = RDiv(RSub(SSR_r, SSR_u), RDiv(SSR_u, RInt(n - 3)))
            /\ result.df1 = Some(1) /\ result.df2 = Some(n - 3)
            /\ result.p_value = Some(OneMinus(stats_f_cdf(F, 1, n - 3)))
            /\ result.significant = Some(result.p_value = Some("(0, 0.05)"))

\* a determinate test whose restricted fit is worse than the unrestricted
\* one, by enough to be significant
C19_Witness ==
    /\ pc = "granger_test" /\ result.F # None
    /\ RLess(Val(result.SSR_unrestricted), Val(result.SSR_restricted))
    /\ result.significant = Some(TRUE)

----------------------------------------------------------------------------
(* The coefficients of the two-predictor solver, under SpecOls *)

\* a series over the valid rows of the two-predictor solver, as rationals
OverValidRows(series) ==
    [j \in DOMAIN ValidRows3(argY, argX1, argX2) |->
        RInt(Val(series[ValidRows3(argY, argX1, argX2)[j]]))]

\* the residuals of the returned coefficients over the valid rows
Residuals ==
    [j \in DOMAIN ValidRows3(argY, argX1, argX2) |->
        RSub(OverValidRows(argY)[j],
             RAdd(Val(result.beta0),
                  RAdd(RMul(Val(result.beta1), OverValidRows(argX1)[j]),
                       RMul(Val(result.beta2), OverValidRows(argX2)[j]))))]

\* the sum of the products of two sequences of rationals
Dot(xs, ys) == RSum([j \in DOMAIN xs |-> RMul(xs[j], ys[j])])

\* C20: for every determinate two-predictor fit, with the variances,
\* covariances and means taken over the valid rows,
\* beta1 = (Cov(X1,Y)*Var(X2) - Cov(X2,Y)*Cov(X1,X2)) / denom,
\* beta2 = (Cov(X2,Y)*Var(X1) - Cov(X1,Y)*Cov(X1,X2)) / denom,
\* beta0 = mean(Y) - beta1*mean(X1) - beta2*mean(X2), and the residuals sum
\* to zero and are orthogonal to X1 and to X2.
C20_ClosedFormAndNormalEquations ==
    (pc = "ols_two_variables" /\ result.beta0 # None) =>
        LET Y == OverValidRows(argY)
            X1 == OverValidRows(argX1)
            X2 == OverValidRows(argX2)
            denom == RSub(RMul(PopulationCovariance(X1, X1), PopulationCovariance(X2, X2)),
                          RSquare(PopulationCovariance(X1, X2)))
            beta1 == RDiv(RSub(RMul(PopulationCovariance(X1, Y), PopulationCovariance(X2, X2)),
                               RMul(PopulationCovariance(X2, Y), PopulationCovariance(X1, X2))),
                          denom)
            beta2 == RDiv(RSub(RMul(PopulationCovariance(X2, Y), PopulationCovariance(X1, X1)),
                               RMul(PopulationCovariance(X1, Y), PopulationCovariance(X1, X2))),
                          denom)
        IN  /\ result.beta1 = Some(beta1) /\ result.beta2 = Some(beta2)
            /\ result.beta0 = Some(RSub(RSub(MeanOf(Y), RMul(beta1, MeanOf(X1))),
                                         RMul(beta2, MeanOf(X2))))
            /\ RSum(Residuals) = RInt(0)
            /\ Dot(Residuals, X1) = RInt(0)
            /\ Dot(Residuals, X2) = RInt(0)
----------------------------------------------------------------------------
(* The independence of the per-variable analyses, under SpecVar *)

\* the four columns run_var reads for a variable
OwnColumns(variable_name) ==
    {DeltaCol(Col(p, variable_name)) : p \in Platforms}
    \cup {LagCol(DeltaCol(Col(p, variable_name))) : p \in Platforms}

\* what every cell of the other columns is replaced with: the empty marker,
\* the text of a number, and a text that float() rejects
OtherCells == {<<>>, <<"0">>, <<"x">>}

\* the data with every cell outside the columns of a variable replaced
WithOtherColumns(d, variable_name, cell) ==
    [k \in DOMAIN d |->
        [c \in DOMAIN d[k] |-> IF c \in OwnColumns(variable_name) THEN d[k][c] ELSE cell]]

\* run_var of the last pass returned what run_var returns for the same
\* variable on data whose other columns hold anything else
SameOnOtherData ==
    Ran =>
        \A cell \in OtherCells :
            <<result, cdf_calls>>
                \in RunVarOutcomes(result.variable, WithOtherColumns(data, result.variable, cell))

\* C21: the result of run_var for a variable depends only on the four
\* columns of that variable: at every position of every table it is a result
\* of run_var on data in which the columns of all other variables are empty,
\* zero or unreadable; and no analysis changes the data.
C21_IndependentAnalyses ==
    /\ []SameOnOtherData
    /\ [][(pc \in {"detail", "tiers", "appendix"}) => (data' = data)]_vars

\* a variable other than the first has been fitted, with a determinate
\* regression, on data in which another variable has an empty cell
C21_Witness ==
    /\ Ran /\ at # NextAt(1, 0)
    /\ result.reg1_alpha # None
    /\ \E w \in VarNames \ {result.variable} : \E k \in DOMAIN data :
          data[k][DeltaCol(Col("poly", w))] = <<>>

----------------------------------------------------------------------------
(* The round trip of the delta step, under SpecPre *)

\* every value of a column is present
AllPresent(c) == \A k \in DOMAIN rows : rows[k][c] # None

\* value[0] with the deltas of the periods up to row k added, in units
RECURSIVE Accumulated(_, _)
Accumulated(c, k) ==
    IF k = 1 THEN Val(rows[1][c])
    ELSE Accumulated(c, k - 1) + Val(rows[k][DeltaCol(c)])

\* the level counts are whole numbers (len of a list); every other variable
\* is a price or a size that can be a decimal fraction
WholeNumbers == {Col(p, v) : p \in Platforms, v \in {"num_levels_yes", "num_levels_no"}}

\* curr_val - prev_val, and prev_val plus that difference, in binary floating
\* point: the difference of two floats neither of which is more than twice
\* the other is exact, and so is then the sum that gives curr_val back; so
\* are a difference with zero and every operation on whole numbers.
\* Otherwise the difference is rounded and the sum can miss curr_val by a
\* unit in the last place.
DifferenceRounds(c, prev_val, curr_val) ==
    /\ c \notin WholeNumbers
    /\ prev_val # 0 /\ curr_val # 0
    /\ \/ (prev_val < 0) # (curr_val < 0)
       \/ 2 * Abs(prev_val) < Abs(curr_val)
       \/ 2 * Abs(curr_val) < Abs(prev_val)

\* the distances, in units in the last place, at which the accumulated
\* floating-point value of row k can be from value[k]
RECURSIVE Drifts(_, _)
Drifts(c, k) ==
    IF k = 1 THEN {0}
    ELSE {d + e : d \in Drifts(c, k - 1),
                  e \in IF DifferenceRounds(c, Val(rows[k - 1][c]), Val(rows[k][c]))
                        THEN Rounding ELSE {0}}

----------------------------------------------------------------------------
(* The pipeline on all-present series: the worked example of the docstring  *)
(* of run_var.py (mid prices 0.50, 0.52, 0.55, 0.54, 0.56 on Polymarket and  *)
(* 0.48, 0.49, 0.53, 0.55, 0.57 on Kalshi, continued for further periods),   *)
(* cut after any number of periods, with the Polymarket price of any period  *)
(* a cent higher.                                                            *)

ExamplePeriods == 7

ExamplePoly == <<50, 52, 55, 54, 56, 55, 58, 57, 59>>
ExampleKalshi == <<48, 49, 53, 55, 57, 59, 58, 60, 59>>

\* books with one order a side whose mid prices are poly_mid and kalshi_mid
ExampleSnap(poly_mid, kalshi_mid) ==
    Snap(<<Order(poly_mid, 1)>>, <<Order(ONE - poly_mid, 1)>>,
         <<Order(kalshi_mid, 1)>>, <<Order(ONE - kalshi_mid, 1)>>)

ExampleSeqs ==
    UNION {{[k \in 1..n |-> ExampleSnap(ExamplePoly[k] + up[k], ExampleKalshi[k])] :
                up \in [1..n -> {0, 1}]} :
           n \in 1..ExamplePeriods}

InitExample ==
    /\ snaps \in ExampleSeqs
    /\ rows = <<>>
    /\ rows_complete = <<>>
    /\ csv_out = <<>>
    /\ pc = "extract"
    /\ argY = <<>> /\ argX1 = <<>> /\ argX2 = <<>>
    /\ result = None
    /\ cdf_calls = <<>>
    /\ data = <<>> /\ out = <<>> /\ at = <<1, 1>>
    /\ NoFetcher

NextExample ==
    \/ Extract \/ DeltaStep \/ LagStep \/ DropStep \/ WriteCsv \/ ShowSample
    \/ LoadCsv \/ DetailedAnalysis \/ TierRow \/ AppendixRow

SpecExample == InitExample /\ [][NextExample]_vars

----------------------------------------------------------------------------
(* The valid rows of all-present series, under SpecExample *)

\* the first five periods are those of the worked example
WorkedExample ==
    snaps = [k \in 1..5 |-> ExampleSnap(ExamplePoly[k], ExampleKalshi[k])]

\* both regressions of the dictionary are indeterminate
BothIndeterminate(r) ==
    /\ r.reg1_alpha = None /\ r.reg1_beta_poly_lag = None /\ r.reg1_beta_kalshi_lag = None
    /\ r.reg2_alpha = None /\ r.reg2_beta_poly_lag = None /\ r.reg2_beta_kalshi_lag = None

\* the fewest periods whose feature rows are MIN_ROWS_TWO valid rows
SmallestDeterminate == MIN_ROWS_TWO + 2

----------------------------------------------------------------------------
(* The empty marker and the zero, under SpecVar *)

\* the data rows none of whose cells in the three columns is empty
RowsWithoutEmptyCell(y_col, x1_col, x2_col) ==
    {k \in DOMAIN data :
        data[k][y_col] # <<>> /\ data[k][x1_col] # <<>> /\ data[k][x2_col] # <<>>}

\* C24: run_var reads a cell as absent exactly when the cell is empty; the
\* cell of a zero delta or lagged delta is read as the number 0, every cell
\* is read as the value the preprocessing computed, and the valid rows of a
\* regression are the rows with no empty cell among its three columns.
C24_AbsentIffEmptyMarker ==
    Ran =>
        LET v == result.variable IN
        /\ \A c \in OwnColumns(v) : \A k \in DOMAIN data :
              /\ (Column(data, c)[k] = None) <=> (data[k][c] = <<>>)
              /\ Column(data, c)[k] = rows[k + 2][c]
              /\ rows[k + 2][c] = Some(0) => Column(data, c)[k] = Some(0)
        /\ \A q \in Platforms :
              ValidDataRows(v, q) =
                  RowsWithoutEmptyCell(DeltaCol(Col(q, v)), LagCol(DeltaCol(Col("poly", v))),
                                       LagCol(DeltaCol(Col("kalshi", v))))

\* a regression has been fitted on rows one of which has a zero delta, from
\* data that have an empty cell in a column of the same variable
C24_Witness ==
    /\ Ran /\ result.reg1_alpha # None
    /\ \E k \in ValidDataRows(result.variable, "poly") :
          data[k][DeltaCol(Col("poly", result.variable))] = <<"0">>
    /\ \E c \in OwnColumns(result.variable) : \E k \in DOMAIN data : data[k][c] = <<>>

----------------------------------------------------------------------------
(* The samples of the two fits of granger_test, under SpecVar *)

\* the rows the restricted fit Y ~ X_kept of ols_one_variable is computed on
RestrictedRows(Y, X_kept) ==
    LET valid_rows == ValidRows2(Y, X_kept) IN {valid_rows[j] : j \in DOMAIN valid_rows}

\* the rows the unrestricted fit Y ~ X1 + X2 of ols_two_variables is computed on
UnrestrictedRows(Y, X1, X2) ==
    LET valid_rows == ValidRows3(Y, X1, X2) IN {valid_rows[j] : j \in DOMAIN valid_rows}

\* C25: whenever a Granger test of run_var yields an F, its restricted
\* regression was fitted on the rows of its unrestricted regression, the
\* rows where Y, X1 and X2 are all present.
C25_RestrictedFitOnSameRows ==
    Ran =>
        LET v == result.variable
            dPoly == Y1Of(v, data)
            dKalshi == Y2Of(v, data)
            lagPoly == X1Of(v, data)
            lagKalshi == X2Of(v, data)
        IN  /\ result.granger_kalshi_to_poly_F # None =>
                  RestrictedRows(dPoly, lagPoly) = UnrestrictedRows(dPoly, lagPoly, lagKalshi)
            /\ result.granger_poly_to_kalshi_F # None =>
                  RestrictedRows(dKalshi, lagKalshi) = UnrestrictedRows(dKalshi, lagPoly, lagKalshi)

----------------------------------------------------------------------------
(* The row count the solvers return, under SpecOls *)

\* C26: in every outcome of ols_two_variables and of ols_one_variable the n
\* returned is the number of valid rows of the input.
C26_ReturnedNIsValidRowCount ==
    /\ pc = "ols_two_variables" => result.n = Len(ValidRows3(argY, argX1, argX2))
    /\ pc = "ols_one_variable" => result.n = Len(ValidRows2(argY, argX1))

----------------------------------------------------------------------------
(* The ranges of SSR and R2, under SpecOls *)

\* a <= b for two rationals
RLeq(a, b) == a = b \/ RLess(a, b)

\* C27: for every determinate result of ols_two_variables or of
\* ols_one_variable, SSR >= 0 and 0 <= R2 <= 1.
C27_RangesOfSSRAndRSquared ==
    (pc \in {"ols_two_variables", "ols_one_variable"} /\ result.beta0 # None) =>
        /\ ~IsRaised(Val(result.SSR)) /\ ~IsRaised(Val(result.R_squared))
        /\ RLeq(RInt(0), Val(result.SSR))
        /\ RLeq(RInt(0), Val(result.R_squared))
        /\ RLeq(Val(result.R_squared), RInt(1))

\* ---------------------------------------------------------------------------
\* rick_rewards/fetch_rick_rieder_orderbooks.py: the paginated fetch
\* ---------------------------------------------------------------------------

MaxPages == 3
MAX_RETRIES == 4

\* what requests.get can produce: a status with a usable body, a 429 whose
\* body is no JSON object with a number under "retry_after", or an exception
Responses == {"200", "429", "429 unusable", "5xx", "other", "Timeout", "RequestException"}

\* the snapshots of page k of the endpoint, two per page, numbered in order
PageSnapshots(k) == <<2 * k - 1, 2 * k>>

\* the JSON the endpoint answers for a pagination key (None asks for page 1)
PageBody(n, key) ==
    LET k == IF key = None THEN 1 ELSE Val(key)
    IN  [snapshots |-> IF k <= n THEN PageSnapshots(k) ELSE <<>>,
         has_more |-> k < n,
         pagination_key |-> IF k < n THEN Some(k + 1) ELSE None]

\* all_snapshots = [], pagination_key = None, page = 1
InitRick ==
    /\ snaps = <<>> /\ rows = <<>> /\ rows_complete = <<>> /\ csv_out = <<>>
    /\ argY = <<>> /\ argX1 = <<>> /\ argX2 = <<>> /\ result = None
    /\ cdf_calls = <<>>
    /\ data = <<>> /\ out = <<>> /\ at = <<1, 1>>
    /\ server \in 0..MaxPages
    /\ pagination_key = None /\ page = 1 /\ all_snapshots = <<>>
    /\ attempt = 0 /\ requests = 0 /\ response = None /\ fetched = None
    /\ timestamps = <<>> /\ batch_start = 0 /\ calls = <<>> /\ futures = {}
    /\ kalshi_results = <<>>
    /\ pc = "fetch_with_retries"

\* one pass of the for loop of fetch_with_retries that ends in continue
RetryRequestUncounted(status) ==
    /\ pc = "fetch_with_retries"
    /\ attempt < MAX_RETRIES
    /\ status \in Responses \ {"200"}
    /\ requests' = requests + 1
    /\ response' = Some(status)
    /\ \/ attempt' = attempt /\ pc' = pc
       \/ status = "429 unusable" /\ attempt' = attempt /\ pc' = "raised"
    /\ UNCHANGED <<preVars, olsVars, varVars, kalshiVars, server, pagination_key, page, all_snapshots, fetched>>

\* one pass of the for loop of fetch_with_retries that ends in continue, or
\* in an exception no except clause of the function names
RetryRequest(status) ==
    /\ pc = "fetch_with_retries"
    /\ attempt < MAX_RETRIES
    /\ status \in Responses \ {"200"}
    /\ requests' = requests + 1
    /\ response' = Some(status)
    /\ \/ attempt' = attempt + 1 /\ pc' = pc
       \/ status = "429 unusable" /\ attempt' = attempt /\ pc' = "raised"
    /\ UNCHANGED <<preVars, olsVars, varVars, kalshiVars, server, pagination_key, page, all_snapshots, fetched>>

\* the pass that receives status 200: return response.json(), True
SuccessRequest ==
    /\ pc = "fetch_with_retries"
    /\ attempt < MAX_RETRIES
    /\ requests' = requests + 1
    /\ response' = Some("200")
    /\ fetched' = Some(<<Some(PageBody(server, pagination_key)), TRUE>>)
    /\ pc' = "page"
    /\ UNCHANGED <<preVars, olsVars, varVars, kalshiVars, server, pagination_key, page, all_snapshots, attempt>>

\* the for loop is exhausted: return None, False; the while loop of
\* fetch_polymarket_orderbooks breaks and the function returns all_snapshots
GiveUp ==
    /\ pc = "fetch_with_retries"
    /\ attempt = MAX_RETRIES
    /\ fetched' = Some(<<None, FALSE>>)
    /\ pc' = "returned"
    /\ UNCHANGED <<preVars, olsVars, varVars, kalshiVars, server, pagination_key, page, all_snapshots, attempt, requests, response>>

\* the rest of a pass of the while loop after a successful fetch
HandlePage ==
    /\ pc = "page"
    /\ LET body == Val(Val(fetched)[1])
       IN  IF body.snapshots = <<>>
           THEN pc' = "returned"
                /\ UNCHANGED <<all_snapshots, pagination_key, page, attempt, requests, fetched>>
           ELSE /\ all_snapshots' = all_snapshots \o body.snapshots
                /\ IF ~body.has_more
                   THEN pc' = "returned"
                        /\ UNCHANGED <<pagination_key, page, attempt, requests, fetched>>
                   ELSE /\ pagination_key' = body.pagination_key
                        /\ IF body.pagination_key = None
                           THEN pc' = "returned"
                                /\ UNCHANGED <<page, attempt, requests, fetched>>
                           ELSE /\ page' = page + 1
                                /\ attempt' = 0 /\ requests' = 0 /\ fetched' = None
                                /\ pc' = "fetch_with_retries"
    /\ UNCHANGED <<preVars, olsVars, varVars, kalshiVars, server, response>>

NextRick ==
    \/ \E status \in Responses \ {"200"} : RetryRequest(status)
    \/ SuccessRequest
    \/ GiveUp
    \/ HandlePage

SpecRick == InitRick /\ [][NextRick]_vars

\* the snapshots of the first k pages, in page order
RECURSIVE FirstPages(_)
FirstPages(k) == IF k = 0 THEN <<>> ELSE FirstPages(k - 1) \o PageSnapshots(k)

\* C28: fetch_with_retries makes at most max_retries requests for one URL
\* whatever the responses are; it returns (json, True) at the first 200, with
\* no request after it, and (None, False) once max_retries requests in a row
\* have failed, and fetch_polymarket_orderbooks then returns the snapshots of
\* the pages fetched before, which it holds at every moment.
C28_BoundedRetries ==
    /\ requests <= MAX_RETRIES
    /\ pc = "fetch_with_retries" =>
          /\ fetched = None
          /\ requests = attempt
          /\ requests > 0 => response # Some("200")
    /\ pc = "page" =>
          /\ response = Some("200")
          /\ fetched = Some(<<Some(PageBody(server, pagination_key)), TRUE>>)
    /\ (pc = "returned" /\ fetched = Some(<<None, FALSE>>)) =>
          /\ requests = MAX_RETRIES
          /\ response # Some("200")
          /\ all_snapshots = FirstPages(page - 1)
    /\ (pc = "returned" /\ fetched # Some(<<None, FALSE>>)) =>
          all_snapshots = FirstPages(server)
    /\ pc \in {"fetch_with_retries", "page", "raised"} =>
          all_snapshots = FirstPages(page - 1)

\* the second page fails MAX_RETRIES times in a row and the first page's
\* snapshots are returned
C28_Witness ==
    /\ pc = "returned"
    /\ fetched = Some(<<None, FALSE>>)
    /\ requests = MAX_RETRIES
    /\ page = 2
    /\ all_snapshots = PageSnapshots(1)

\* ---------------------------------------------------------------------------
\* fetch_fed_nochange_orderbooks.py: fetch_polymarket_orderbooks
\* ---------------------------------------------------------------------------

\* requests counts the requests for one URL up to this number and stays there
MaxRequests == 3

\* the outcomes after which the while loop goes round again with the same URL
FedRetried == {"Exception", "429", "502/503/504"}

\* all_snapshots = [], pagination_key = None, page = 1
InitFed ==
    /\ snaps = <<>> /\ rows = <<>> /\ rows_complete = <<>> /\ csv_out = <<>>
    /\ argY = <<>> /\ argX1 = <<>> /\ argX2 = <<>> /\ result = None
    /\ cdf_calls = <<>>
    /\ data = <<>> /\ out = <<>> /\ at = <<1, 1>>
    /\ server \in 0..MaxPages
    /\ pagination_key = None /\ page = 1 /\ all_snapshots = <<>>
    /\ attempt = 0 /\ requests = 0 /\ response = None /\ fetched = None
    /\ timestamps = <<>> /\ batch_start = 0 /\ calls = <<>> /\ futures = {}
    /\ kalshi_results = <<>>
    /\ pc = "request"

\* a pass of the while loop that ends in continue: requests.get raised, or
\* answered 429, or 502, 503 or 504
FedRetry(status) ==
    /\ pc = "request"
    /\ status \in FedRetried
    /\ requests' = Min(requests + 1, MaxRequests)
    /\ response' = Some(status)
    /\ UNCHANGED <<preVars, olsVars, varVars, kalshiVars, server, pagination_key, page, all_snapshots, attempt, fetched, pc>>

\* a 429 whose body is no JSON object with a number under "retry_after":
\* lines 197 and 199 stand outside the try and the exception leaves the function
FedRateLimitRaises ==
    /\ pc = "request"
    /\ requests' = Min(requests + 1, MaxRequests)
    /\ response' = Some("429 unusable")
    /\ pc' = "raised"
    /\ UNCHANGED <<preVars, olsVars, varVars, kalshiVars, server, pagination_key, page, all_snapshots, attempt, fetched>>

\* a pass that receives any other status than 200 (500 among them): break
FedOtherStatus ==
    /\ pc = "request"
    /\ requests' = Min(requests + 1, MaxRequests)
    /\ response' = Some("other")
    /\ pc' = "returned"
    /\ UNCHANGED <<preVars, olsVars, varVars, kalshiVars, server, pagination_key, page, all_snapshots, attempt, fetched>>

\* a pass that receives status 200
FedPage ==
    /\ pc = "request"
    /\ response' = Some("200")
    /\ LET body == PageBody(server, pagination_key)
       IN  IF body.snapshots = <<>>
           THEN pc' = "returned"
                /\ requests' = Min(requests + 1, MaxRequests)
                /\ UNCHANGED <<all_snapshots, pagination_key, page>>
           ELSE /\ all_snapshots' = all_snapshots \o body.snapshots
                /\ IF ~body.has_more
                   THEN pc' = "returned"
                        /\ requests' = Min(requests + 1, MaxRequests)
                        /\ UNCHANGED <<pagination_key, page>>
                   ELSE /\ pagination_key' = body.pagination_key
                        /\ IF body.pagination_key = None
                           THEN pc' = "returned"
                                /\ requests' = Min(requests + 1, MaxRequests)
                                /\ UNCHANGED page
                           ELSE /\ page' = page + 1
                                /\ requests' = 0
                                /\ pc' = pc
    /\ UNCHANGED <<preVars, olsVars, varVars, kalshiVars, server, attempt, fetched>>

NextFed ==
    \/ \E status \in FedRetried : FedRetry(status)
    \/ FedRateLimitRaises
    \/ FedOtherStatus
    \/ FedPage

SpecFed == InitFed /\ [][NextFed]_vars

\* the script keeps running: a pass of the loop that can be made is made
SpecFedFair == SpecFed /\ WF_vars(NextFed)

\* the pages fetched so far are in all_snapshots once each, in page order
PagesOnceInOrder ==
    all_snapshots = FirstPages(IF pc # "request" /\ response = Some("200")
                               THEN Min(page, server)
                               ELSE page - 1)

\* C29: for every behaviour of the server the pagination loop of the Fed
\* fetcher comes to an end, and the result holds the snapshots of every page
\* fetched exactly once, in page order.
C29_LoopTerminates ==
    /\ <>(pc \in {"returned", "raised"})
    /\ []PagesOnceInOrder

\* ---------------------------------------------------------------------------
\* fetch_fed_nochange_orderbooks.py: fetch_kalshi_for_timestamps
\* ---------------------------------------------------------------------------

\* the batch size, 50 in the script, scaled down
BATCH_SIZE == 2
MaxTimestamps == 3
retries == 3

\* a timestamp of a Polymarket snapshot: snap["timestamp"], None when absent
TimestampValues == {None, Some(1), Some(2)}

RECURSIVE SeqsUpTo(_, _)
SeqsUpTo(S, n) ==
    IF n = 0 THEN {<<>>}
    ELSE LET shorter == SeqsUpTo(S, n - 1)
         IN  shorter \union {Append(q, x) : q \in {r \in shorter : Len(r) = n - 1}, x \in S}

\* the outcomes of a request after which fetch_kalshi_at_timestamp tries again
KalshiFailures == {"429", "non-200", "no snapshots", "Exception"}

\* the dict fetch_kalshi_at_timestamp returns from call i: the snapshot closest
\* to the timestamp of the call, as the endpoint held it at that moment
SnapshotOf(i) == [target_ts |-> timestamps[i], call |-> i]

\* results = {}, before the first batch
InitKalshi ==
    /\ snaps = <<>> /\ rows = <<>> /\ rows_complete = <<>> /\ csv_out = <<>>
    /\ argY = <<>> /\ argX1 = <<>> /\ argX2 = <<>> /\ result = None
    /\ cdf_calls = <<>>
    /\ data = <<>> /\ out = <<>> /\ at = <<1, 1>>
    /\ server = 0 /\ pagination_key = None /\ page = 1 /\ all_snapshots = <<>>
    /\ attempt = 0 /\ requests = 0 /\ response = None /\ fetched = None
    /\ timestamps \in SeqsUpTo(TimestampValues, MaxTimestamps)
    /\ batch_start = 0 /\ calls = <<>> /\ futures = {}
    /\ kalshi_results = <<>>
    /\ pc = "batch"

\* futures = {executor.submit(fetch_kalshi_at_timestamp, ts, headers): ts for ts in batch}
SubmitBatch ==
    /\ pc = "batch"
    /\ batch_start < Len(timestamps)
    /\ LET batch_end == Min(batch_start + BATCH_SIZE, Len(timestamps))
       IN  /\ calls' = calls \o [k \in 1..(batch_end - batch_start) |->
                                    [target_ts |-> timestamps[batch_start + k],
                                     made |-> 0, state |-> "running", collected |-> FALSE]]
           /\ futures' = {Len(calls) + k : k \in 1..(batch_end - batch_start)}
    /\ pc' = "collect"
    /\ UNCHANGED <<preVars, olsVars, varVars, polyVars, timestamps, batch_start, kalshi_results>>

\* fetch_kalshi_at_timestamp: start_time = target_ts - KALSHI_SEARCH_WINDOW_MS
\* raises for a timestamp that is None, before any request
CallRaises(i) ==
    /\ i \in futures
    /\ calls[i].state = "running"
    /\ calls[i].target_ts = None
    /\ calls' = [calls EXCEPT ![i].state = "raised"]
    /\ UNCHANGED <<preVars, olsVars, varVars, polyVars, timestamps, batch_start, futures, kalshi_results, pc>>

\* one pass of the for loop of fetch_kalshi_at_timestamp
CallRequest(i, status) ==
    /\ i \in futures
    /\ calls[i].state = "running"
    /\ calls[i].target_ts # None
    /\ calls[i].made < retries
    /\ calls' = [calls EXCEPT ![i].made = @ + 1,
                              ![i].state = IF status \in KalshiFailures THEN @ ELSE "snapshot"]
    /\ UNCHANGED <<preVars, olsVars, varVars, polyVars, timestamps, batch_start, futures, kalshi_results, pc>>

\* the for loop is exhausted: return None
CallReturnsNone(i) ==
    /\ i \in futures
    /\ calls[i].state = "running"
    /\ calls[i].target_ts # None
    /\ calls[i].made = retries
    /\ calls' = [calls EXCEPT ![i].state = "None"]
    /\ UNCHANGED <<preVars, olsVars, varVars, polyVars, timestamps, batch_start, futures, kalshi_results, pc>>

\* results[ts] = result
Store(r, ts, v) == [t \in DOMAIN r \union {ts} |-> IF t = ts THEN v ELSE r[t]]

\* a pass of `for future in as_completed(futures)`, storing under the
\* timestamp of the first call of the batch
CollectUnderFirstKey(i) ==
    /\ pc = "collect"
    /\ i \in futures
    /\ calls[i].state # "running"
    /\ ~calls[i].collected
    /\ kalshi_results' = IF calls[i].state = "snapshot"
                         THEN Store(kalshi_results, timestamps[batch_start + 1], SnapshotOf(i))
                         ELSE kalshi_results
    /\ calls' = [calls EXCEPT ![i].collected = TRUE]
    /\ UNCHANGED <<preVars, olsVars, varVars, polyVars, timestamps, batch_start, futures, pc>>

\* a pass of `for future in as_completed(futures)`: any finished fetch of the
\* batch not yet seen; future.result() raises what the call raised
Collect(i) ==
    /\ pc = "collect"
    /\ i \in futures
    /\ calls[i].state # "running"
    /\ ~calls[i].collected
    /\ kalshi_results' = IF calls[i].state = "snapshot"
                         THEN Store(kalshi_results, timestamps[i], SnapshotOf(i))
                         ELSE kalshi_results
    /\ calls' = [calls EXCEPT ![i].collected = TRUE]
    /\ UNCHANGED <<preVars, olsVars, varVars, polyVars, timestamps, batch_start, futures, pc>>

\* as_completed is exhausted: the next value of batch_start
EndBatch ==
    /\ pc = "collect"
    /\ \A i \in futures : calls[i].collected
    /\ batch_start' = batch_start + BATCH_SIZE
    /\ pc' = "batch"
    /\ UNCHANGED <<preVars, olsVars, varVars, polyVars, timestamps, calls, futures, kalshi_results>>

\* range(0, len(timestamps), BATCH_SIZE) is exhausted: return results
ReturnResults ==
    /\ pc = "batch"
    /\ batch_start >= Len(timestamps)
    /\ pc' = "returned"
    /\ UNCHANGED <<preVars, olsVars, varVars, polyVars, kalshiVars>>

NextKalshi ==
    \/ SubmitBatch
    \/ \E i \in 1..Len(calls) : CallRaises(i)
    \/ \E i \in 1..Len(calls) : \E status \in KalshiFailures \union {"200"} : CallRequest(i, status)
    \/ \E i \in 1..Len(calls) : CallReturnsNone(i)
    \/ \E i \in 1..Len(calls) : Collect(i)
    \/ EndBatch
    \/ ReturnResults

SpecKalshi == InitKalshi /\ [][NextKalshi]_vars

\* the calls seen by the collecting loop that returned a snapshot for ts
Found(ts) ==
    {i \in 1..Len(calls) : calls[i].target_ts = ts /\ calls[i].state = "snapshot" /\ calls[i].collected}

\* C30: whatever the order in which the parallel fetches finish, there is one
\* fetch per requested timestamp, a batch starts only when every fetch of the
\* batch before has finished, the dict holds a timestamp iff a fetch for it
\* returned a snapshot, under the result of a fetch for that timestamp, a
\* fetch that fails or raises leaves the other entries alone, and no fetch
\* makes more than `retries` requests.
C30_ParallelBatches ==
    /\ Len(calls) = Min(Len(timestamps), batch_start + (IF pc = "collect" THEN BATCH_SIZE ELSE 0))
    /\ \A i \in 1..Len(calls) :
          /\ calls[i].target_ts = timestamps[i]
          /\ calls[i].made <= retries
          /\ calls[i].state = "None" => calls[i].made = retries
          /\ calls[i].state = "raised" => calls[i].made = 0
          /\ (calls[i].state = "running" \/ ~calls[i].collected) =>
                (pc = "collect" /\ i \in futures /\ i > batch_start)
    /\ DOMAIN kalshi_results = {ts \in TimestampValues : Found(ts) # {}}
    /\ \A ts \in DOMAIN kalshi_results : \E i \in Found(ts) : kalshi_results[ts] = SnapshotOf(i)
    /\ pc = "returned" =>
          /\ Len(calls) = Len(timestamps)
          /\ \A i \in 1..Len(calls) : calls[i].collected

\* a later fetch of a batch has finished and its snapshot is stored while an
\* earlier fetch of the batch is still retrying
C30_Witness ==
    /\ pc = "collect"
    /\ \E i, j \in futures :
          /\ i < j
          /\ calls[i].state = "running" /\ calls[i].made > 0
          /\ calls[j].state = "snapshot" /\ calls[j].collected
          /\ DOMAIN kalshi_results = {calls[j].target_ts}
          /\ calls[i].target_ts # calls[j].target_ts

=============================================================================
